---- MODULE Spec2Model ----
(***************************************************************************)
(* A model of the geometry codec of liblwgeom: the GSERIALIZED v2 sizer,   *)
(* encoder, decoder, emptiness probe and bounding-box peek                 *)
(* (liblwgeom/gserialized2.c), the WKB writer (lwout_wkb.c) and the NURBS  *)
(* curve constructor and knot synthesis (liblwgeom/lwgeom_nurbs.c).        *)
(*                                                                         *)
(* A serialized record is the GSERIALIZED struct: size, srid[3], gflags    *)
(* and the data area.  The data area is a sequence of 32-bit words (every  *)
(* field of the format is 4 or 8 bytes wide); a double is two words, low   *)
(* word first.  WKB output is a sequence of bytes.                         *)
(***************************************************************************)
EXTENDS Integers, Sequences, FiniteSets, TLC

VARIABLES
    geom,      \* the in-memory LWGEOM handed to the encoder or writer
    pc,        \* which operation has run last
    ser,       \* outcome of gserialized2_from_lwgeom
    dec,       \* outcome of lwgeom_from_gserialized2
    probe,     \* outcome of gserialized2_is_empty / gserialized2_peek_gbox_p / get_gbox_p
    wkb        \* outcome of lwgeom_to_wkb_buffer / lwgeom_to_wkb_varlena

vars == <<geom, pc, ser, dec, probe, wkb>>

(***************************************************************************)
(* Bounds of the model.                                                    *)
(***************************************************************************)
MaxPoints == 2     \* points in a coordinate block
MaxRings == 2      \* rings in a polygon
MaxGeoms == 2      \* children in a collection
MaxDegree == 2     \* degree of a NURBS curve
MaxCtrl == 4       \* control points of a NURBS curve that is evaluated
MaxSegments == 3   \* segments asked of lwnurbscurve_to_linestring

(***************************************************************************)
(* Geometry type numbers (liblwgeom.h).                                    *)
(***************************************************************************)
POINTTYPE == 1
LINETYPE == 2
POLYGONTYPE == 3
MULTIPOINTTYPE == 4
MULTILINETYPE == 5
MULTIPOLYGONTYPE == 6
COLLECTIONTYPE == 7
CIRCSTRINGTYPE == 8
COMPOUNDTYPE == 9
CURVEPOLYTYPE == 10
MULTICURVETYPE == 11
MULTISURFACETYPE == 12
POLYHEDRALSURFACETYPE == 13
TRIANGLETYPE == 14
TINTYPE == 15
NURBSCURVETYPE == 16
\* type numbers no switch of the codec knows
UnknownTypes == {0}
\* the SRID of a geometry without one; stored as 0 in a record
SRID_UNKNOWN == 0
\* a known SRID
SRID_WGS84 == 4326

CollectionTypes ==
    {MULTIPOINTTYPE, MULTILINETYPE, MULTIPOLYGONTYPE, COLLECTIONTYPE, COMPOUNDTYPE,
     CURVEPOLYTYPE, MULTICURVETYPE, MULTISURFACETYPE, POLYHEDRALSURFACETYPE, TINTYPE}

\* lwtype_is_collection (lwgeom.c)
lwtype_is_collection(type) == type \in CollectionTypes

\* lwcollection_allows_subtype (lwcollection.c), the admissibility table
lwcollection_allows_subtype(collectiontype, subtype) ==
    \/ collectiontype = COLLECTIONTYPE
    \/ collectiontype = MULTIPOINTTYPE /\ subtype = POINTTYPE
    \/ collectiontype = MULTILINETYPE /\ subtype = LINETYPE
    \/ collectiontype = MULTIPOLYGONTYPE /\ subtype \in {POLYGONTYPE, TRIANGLETYPE}
    \/ collectiontype = COMPOUNDTYPE /\ subtype \in {LINETYPE, CIRCSTRINGTYPE}
    \/ collectiontype = CURVEPOLYTYPE /\ subtype \in {LINETYPE, CIRCSTRINGTYPE, COMPOUNDTYPE}
    \/ collectiontype = MULTICURVETYPE /\ subtype \in {LINETYPE, CIRCSTRINGTYPE, COMPOUNDTYPE}
    \/ collectiontype = MULTISURFACETYPE /\ subtype \in {POLYGONTYPE, CURVEPOLYTYPE}
    \/ collectiontype = POLYHEDRALSURFACETYPE /\ subtype = POLYGONTYPE
    \/ collectiontype = TINTYPE /\ subtype = TRIANGLETYPE

(***************************************************************************)
(* Small helpers on sequences and numbers.                                 *)
(***************************************************************************)
B(b) == IF b THEN 1 ELSE 0

FP_MIN(a, b) == IF a < b THEN a ELSE b
FP_MAX(a, b) == IF a > b THEN a ELSE b

RECURSIVE Flatten(_)
Flatten(ss) == IF ss = <<>> THEN <<>> ELSE Head(ss) \o Flatten(Tail(ss))

RECURSIVE SeqsUpTo(_, _)
\* every sequence over S of length at most n
SeqsUpTo(S, n) ==
    IF n = 0 THEN {<<>>}
    ELSE LET shorter == SeqsUpTo(S, n - 1)
         IN  shorter \cup {<<x>> \o s : x \in S, s \in {t \in shorter : Len(t) = n - 1}}

Range(s) == {s[i] : i \in 1..Len(s)}

(***************************************************************************)
(* Doubles.  A coordinate, weight or knot is one of the values 0..4; its   *)
(* IEEE-754 image is two 32-bit words, low word first.                     *)
(***************************************************************************)
Doubles == 0..4

DoubleHi(d) ==
    CASE d = 0 -> 0
      [] d = 1 -> 1072693248    \* 0x3FF00000
      [] d = 2 -> 1073741824    \* 0x40000000
      [] d = 3 -> 1074266112    \* 0x40080000
      [] d = 4 -> 1074790400    \* 0x40100000

DoubleWords(d) == <<0, DoubleHi(d)>>

\* words that are the image of no value of Doubles read back as a value outside Doubles
DoubleFromWords(lo, hi) ==
    IF \E d \in Doubles : DoubleWords(d) = <<lo, hi>>
    THEN CHOOSE d \in Doubles : DoubleWords(d) = <<lo, hi>>
    ELSE 99

(***************************************************************************)
(* Fractions.  The parameter of a curve, a knot and an evaluated ordinate  *)
(* are fractions <<numerator, denominator>> in lowest terms with a         *)
(* positive denominator; the arithmetic of the evaluation is carried out   *)
(* on them exactly.                                                        *)
(***************************************************************************)
Abs(n) == IF n < 0 THEN 0 - n ELSE n

RECURSIVE GCD(_, _)
GCD(a, b) == IF b = 0 THEN a ELSE GCD(b, a % b)

Rat(n, d) ==
    LET g == GCD(Abs(n), Abs(d))
        s == IF d < 0 THEN 0 - 1 ELSE 1
    IN  <<(s * n) \div g, (s * d) \div g>>

RAdd(a, b) == Rat((a[1] * b[2]) + (b[1] * a[2]), a[2] * b[2])
RSub(a, b) == Rat((a[1] * b[2]) - (b[1] * a[2]), a[2] * b[2])
RMul(a, b) == Rat(a[1] * b[1], a[2] * b[2])
RDiv(a, b) == Rat(a[1] * b[2], a[2] * b[1])
RLe(a, b) == (a[1] * b[2]) <= (b[1] * a[2])
RLt(a, b) == (a[1] * b[2]) < (b[1] * a[2])
RZero == Rat(0, 1)
ROne == Rat(1, 1)

(***************************************************************************)
(* lwflags_t and POINTARRAY.                                               *)
(***************************************************************************)
lwflags(hasz, hasm, geodetic) ==
    [z |-> hasz, m |-> hasm, bbox |-> FALSE, geodetic |-> geodetic, solid |-> FALSE]

FLAGS_NDIMS(flags) == 2 + B(flags.z) + B(flags.m)
FLAGS_GET_ZM(flags) == B(flags.m) + 2 * B(flags.z)
FLAGS_NDIMS_BOX(flags) == IF flags.geodetic THEN 3 ELSE FLAGS_NDIMS(flags)

\* A POINTARRAY: its own z/m flags and the ordinates of each point.
\* null stands for a NULL POINTARRAY pointer.
PtArray(hasz, hasm, pts) == [z |-> hasz, m |-> hasm, pts |-> pts, null |-> FALSE]
NullPA == [z |-> FALSE, m |-> FALSE, pts |-> <<>>, null |-> TRUE]

npoints(pa) == Len(pa.pts)
ptarray_point_size(pa) == 8 * (2 + B(pa.z) + B(pa.m))

\* three 4-d points; every pair differs, in both orders, in every ordinate
BasePoint(i) ==
    CASE i = 1 -> <<0, 1, 2, 3>>
      [] i = 2 -> <<2, 0, 1, 0>>
      [] i = 3 -> <<1, 2, 0, 2>>

\* the ordinates of base point i in a block with the given dimensions
Project(i, hasz, hasm) ==
    LET p == BasePoint(i)
    IN  <<p[1], p[2]>> \o (IF hasz THEN <<p[3]>> ELSE <<>>) \o (IF hasm THEN <<p[4]>> ELSE <<>>)

\* the block whose points are the base points named by idx
PA(hasz, hasm, idx) == PtArray(hasz, hasm, [k \in 1..Len(idx) |-> Project(idx[k], hasz, hasm)])

\* the first n base points, cyclically
Canon(n) == [k \in 1..n |-> ((k - 1) % 3) + 1]

\* getPoint4d_p: ordinates x, y, z, m of point n (z and m are 0 when absent)
getPoint4d(pa, n) ==
    LET p == pa.pts[n]
    IN  [x |-> p[1], y |-> p[2],
         z |-> IF pa.z THEN p[3] ELSE 0,
         m |-> IF pa.m THEN p[IF pa.z THEN 4 ELSE 3] ELSE 0]

\* the words of the block's ordinates, as memcpy from getPoint_internal(pa, 0) copies them
PointWords(pa) == Flatten([k \in 1..Len(pa.pts) |->
                      Flatten([j \in 1..Len(pa.pts[k]) |-> DoubleWords(pa.pts[k][j])])])

DoubleSeqWords(ds) == Flatten([k \in 1..Len(ds) |-> DoubleWords(ds[k])])

(***************************************************************************)
(* LWGEOM.  One record shape serves every geometry type: points is the     *)
(* coordinate block of a Point, LineString, CircularString, Triangle or    *)
(* NurbsCurve, rings the rings of a Polygon, geoms the children of a       *)
(* collection; degree, nweights, nknots, weights and knots are those of a  *)
(* NurbsCurve (an empty weights or knots sequence is a NULL array).  bbox  *)
(* tells whether geom->bbox is set.                                        *)
(***************************************************************************)
Geom(type, flags, srid, points, rings, geoms) ==
    [type |-> type, flags |-> flags, srid |-> srid, bbox |-> FALSE,
     points |-> points, rings |-> rings, geoms |-> geoms,
     degree |-> 0, nweights |-> 0, nknots |-> 0, weights |-> <<>>, knots |-> <<>>]

\* a NULL LWGEOM pointer
NullGeom == Geom(-1, lwflags(FALSE, FALSE, FALSE), SRID_UNKNOWN, NullPA, <<>>, <<>>)

IsLeafType(type) == type \in {POINTTYPE, LINETYPE, CIRCSTRINGTYPE, TRIANGLETYPE, NURBSCURVETYPE}

RECURSIVE lwgeom_is_empty(_)
\* lwgeom_is_empty (lwgeom.c): no point anywhere in the geometry
lwgeom_is_empty(g) ==
    IF lwtype_is_collection(g.type)
    THEN \A i \in 1..Len(g.geoms) : lwgeom_is_empty(g.geoms[i])
    ELSE IF g.type = POLYGONTYPE THEN Len(g.rings) = 0
    ELSE g.points.null \/ npoints(g.points) = 0

RECURSIVE AllPoints(_)
\* every point of the geometry, as x, y, z, m
AllPoints(g) ==
    IF lwtype_is_collection(g.type)
    THEN UNION {AllPoints(g.geoms[i]) : i \in 1..Len(g.geoms)}
    ELSE IF g.type = POLYGONTYPE
    THEN UNION {{getPoint4d(g.rings[r], k) : k \in 1..npoints(g.rings[r])} : r \in 1..Len(g.rings)}
    ELSE IF g.points.null THEN {}
    ELSE {getPoint4d(g.points, k) : k \in 1..npoints(g.points)}

(***************************************************************************)
(* lwnurbscurve_construct and the clamped uniform knot vector.             *)
(* A knot is a double; the synthesized interior knots i/(K+1) are not in   *)
(* Doubles, so a knot vector is kept as numerators over a common           *)
(* denominator only where it is evaluated; stored knots are Doubles.       *)
(***************************************************************************)
\* lwnurbscurve_construct; weights/knots <<>> stand for NULL arguments.
\* The result is NullGeom when the constructor returns NULL.
lwnurbscurve_construct(srid, degree, points, weights, knots, nweights, nknots) ==
    IF degree < 1 \/ degree > 10 THEN NullGeom
    ELSE [type |-> NURBSCURVETYPE,
          flags |-> IF points.null THEN lwflags(FALSE, FALSE, FALSE)
                    ELSE lwflags(points.z, points.m, FALSE),
          srid |-> srid, bbox |-> FALSE,
          points |-> points, rings |-> <<>>, geoms |-> <<>>,
          degree |-> degree, nweights |-> nweights, nknots |-> nknots,
          weights |-> IF weights # <<>> /\ nweights > 0 THEN weights ELSE <<>>,
          knots |-> IF knots # <<>> /\ nknots > 0 THEN knots ELSE <<>>]

\* the lwerror reports of lwnurbscurve_construct, in order
lwnurbscurve_construct_errors(degree, points, weights, knots, nweights, nknots) ==
    IF degree < 1 \/ degree > 10 THEN <<>>
    ELSE (IF ~points.null /\ weights # <<>> /\ nweights # npoints(points)
          THEN <<[msg |-> "NURBS: nweights must equal number of control points",
                  a |-> nweights, b |-> npoints(points)]>> ELSE <<>>)
      \o (IF ~points.null /\ knots # <<>> /\ nknots # npoints(points) + degree + 1
          THEN <<[msg |-> "NURBS: nknots must equal npoints + degree + 1",
                  a |-> nknots, b |-> npoints(points) + degree + 1]>> ELSE <<>>)

\* lwnurbscurve_construct as src/unnamed/part_001 has it: a count that does not
\* fit the control points makes it return NULL, and it reports nothing
lwnurbscurve_construct_part_001(srid, degree, points, weights, knots, nweights, nknots) ==
    IF degree < 1 \/ degree > 10 THEN NullGeom
    ELSE IF weights # <<>> /\ ~points.null /\ nweights # npoints(points) THEN NullGeom
    ELSE IF knots # <<>> /\ ~points.null /\ nknots # npoints(points) + degree + 1
    THEN NullGeom
    ELSE [type |-> NURBSCURVETYPE,
          flags |-> IF points.null THEN lwflags(FALSE, FALSE, FALSE)
                    ELSE lwflags(points.z, points.m, FALSE),
          srid |-> srid, bbox |-> FALSE,
          points |-> points, rings |-> <<>>, geoms |-> <<>>,
          degree |-> degree, nweights |-> nweights, nknots |-> nknots,
          weights |-> IF weights # <<>> /\ nweights > 0 THEN weights ELSE <<>>,
          knots |-> IF knots # <<>> /\ nknots > 0 THEN knots ELSE <<>>]

(***************************************************************************)
(* Error reports.  lwerror hands the message to the installed handler;     *)
(* an error is recorded as its message and the two type numbers it names   *)
(* or counts it names (0 when it names none).                              *)
(***************************************************************************)
Err(msg, a, b) == [msg |-> msg, a |-> a, b |-> b]

(***************************************************************************)
(* GS2 sizer (gserialized2.c).  Sizes are in bytes.                        *)
(***************************************************************************)
gserialized2_from_lwpoint_size(point) ==
    4 + 4 + 8 * npoints(point.points) * FLAGS_NDIMS(point.flags)

gserialized2_from_lwline_size(line) ==
    4 + 4 + 8 * npoints(line.points) * FLAGS_NDIMS(line.flags)

gserialized2_from_lwtriangle_size(triangle) ==
    4 + 4 + 8 * npoints(triangle.points) * FLAGS_NDIMS(triangle.flags)

RECURSIVE SumSeq(_)
SumSeq(s) == IF s = <<>> THEN 0 ELSE Head(s) + SumSeq(Tail(s))

gserialized2_from_lwpoly_size(poly) ==
    LET point_size == FLAGS_NDIMS(poly.flags) * 8
        nrings == Len(poly.rings)
    IN  4 + 4 + (IF nrings % 2 = 1 THEN 4 ELSE 0)
          + SumSeq([i \in 1..nrings |-> 4 + npoints(poly.rings[i]) * point_size])

gserialized2_from_lwcircstring_size(curve) ==
    4 + 4 + 8 * npoints(curve.points) * FLAGS_NDIMS(curve.flags)

gserialized2_from_lwnurbscurve_size(curve) ==
    4 + 4 + 4 + 4 + 4
      + (IF curve.weights # <<>> /\ curve.nweights > 0 THEN 8 * curve.nweights ELSE 0)
      + (IF curve.knots # <<>> /\ curve.nknots > 0 THEN 8 * curve.nknots ELSE 0)
      + (IF ~curve.points.null THEN 8 * npoints(curve.points) * FLAGS_NDIMS(curve.flags) ELSE 0)

RECURSIVE gserialized2_from_any_size(_)
\* the payload size; 0 for a type the switch does not know
gserialized2_from_any_size(g) ==
    CASE g.type = POINTTYPE -> gserialized2_from_lwpoint_size(g)
      [] g.type = LINETYPE -> gserialized2_from_lwline_size(g)
      [] g.type = POLYGONTYPE -> gserialized2_from_lwpoly_size(g)
      [] g.type = TRIANGLETYPE -> gserialized2_from_lwtriangle_size(g)
      [] g.type = CIRCSTRINGTYPE -> gserialized2_from_lwcircstring_size(g)
      [] g.type \in CollectionTypes ->
            \* gserialized2_from_lwcollection_size
            4 + 4 + SumSeq([i \in 1..Len(g.geoms) |-> gserialized2_from_any_size(g.geoms[i])])
      [] g.type = NURBSCURVETYPE -> gserialized2_from_lwnurbscurve_size(g)
      [] OTHER -> 0

RECURSIVE gserialized2_from_any_size_errors(_)
\* the lwerror reports of gserialized2_from_any_size, in order
gserialized2_from_any_size_errors(g) ==
    IF g.type \in CollectionTypes
    THEN Flatten([i \in 1..Len(g.geoms) |-> gserialized2_from_any_size_errors(g.geoms[i])])
    ELSE IF g.type \in {POINTTYPE, LINETYPE, POLYGONTYPE, TRIANGLETYPE, CIRCSTRINGTYPE,
                        NURBSCURVETYPE}
    THEN <<>>
    ELSE <<Err("Unknown geometry type", g.type, 0)>>

\* lwflags_uses_extended_flags: some flag outside Z, M, BBOX, GEODETIC is set
lwflags_uses_extended_flags(flags) == flags.solid

\* gbox_serialized_size (gbox.c)
gbox_serialized_size(flags) ==
    IF flags.geodetic THEN 6 * 4 ELSE 2 * FLAGS_NDIMS(flags) * 4

gserialized2_from_lwgeom_size(g) ==
    8 + (IF lwflags_uses_extended_flags(g.flags) THEN 8 ELSE 0)
      + (IF g.bbox THEN gbox_serialized_size(g.flags) ELSE 0)
      + gserialized2_from_any_size(g)

(***************************************************************************)
(* GS2 encoder (gserialized2.c).  A writer yields the words it stores at   *)
(* the write head and the errors it reports; the bytes it returns are      *)
(* 4 * Len(words).                                                         *)
(***************************************************************************)
Out(words, errs) == [words |-> words, errs |-> errs]

\* the first n words of the memory of a coordinate block; memory past the block reads 0
BlockWords(pa, n) ==
    LET w == PointWords(pa) IN [k \in 1..n |-> IF k <= Len(w) THEN w[k] ELSE 0]

gserialized2_from_lwpoint(point) ==
    LET ptsize == ptarray_point_size(point.points)
    IN  Out(<<POINTTYPE, npoints(point.points)>>
              \o (IF npoints(point.points) > 0 THEN BlockWords(point.points, ptsize \div 4)
                  ELSE <<>>),
            IF FLAGS_GET_ZM(point.flags) # FLAGS_GET_ZM(point.points)
            THEN <<Err("Dimensions mismatch in lwpoint", 0, 0)>> ELSE <<>>)

gserialized2_from_lwline(line) ==
    LET ptsize == ptarray_point_size(line.points)
    IN  Out(<<LINETYPE, npoints(line.points)>>
              \o BlockWords(line.points, (npoints(line.points) * ptsize) \div 4),
            IF line.flags.z # line.points.z
            THEN <<Err("Dimensions mismatch in lwline", 0, 0)>> ELSE <<>>)

gserialized2_from_lwpoly(poly) ==
    LET ptsize == 8 * FLAGS_NDIMS(poly.flags)
        nrings == Len(poly.rings)
    IN  Out(<<POLYGONTYPE, nrings>>
              \o [i \in 1..nrings |-> npoints(poly.rings[i])]
              \o (IF nrings % 2 = 1 THEN <<0>> ELSE <<>>)
              \o Flatten([i \in 1..nrings |->
                    BlockWords(poly.rings[i], (npoints(poly.rings[i]) * ptsize) \div 4)]),
            Flatten([i \in 1..nrings |->
                IF FLAGS_GET_ZM(poly.flags) # FLAGS_GET_ZM(poly.rings[i])
                THEN <<Err("Dimensions mismatch in lwpoly", 0, 0)>> ELSE <<>>]))

gserialized2_from_lwtriangle(triangle) ==
    LET ptsize == ptarray_point_size(triangle.points)
    IN  Out(<<TRIANGLETYPE, npoints(triangle.points)>>
              \o BlockWords(triangle.points, (npoints(triangle.points) * ptsize) \div 4),
            IF FLAGS_GET_ZM(triangle.flags) # FLAGS_GET_ZM(triangle.points)
            THEN <<Err("Dimensions mismatch in lwtriangle", 0, 0)>> ELSE <<>>)

gserialized2_from_lwcircstring(curve) ==
    LET ptsize == ptarray_point_size(curve.points)
    IN  Out(<<CIRCSTRINGTYPE, npoints(curve.points)>>
              \o BlockWords(curve.points, (npoints(curve.points) * ptsize) \div 4),
            IF FLAGS_GET_ZM(curve.flags) # FLAGS_GET_ZM(curve.points)
            THEN <<Err("Dimensions mismatch in lwcircstring", 0, 0)>> ELSE <<>>)

gserialized2_from_lwnurbscurve(curve) ==
    LET ptsize == IF ~curve.points.null THEN ptarray_point_size(curve.points) ELSE 0
        np == IF ~curve.points.null THEN npoints(curve.points) ELSE 0
    IN  Out(<<NURBSCURVETYPE, np, curve.degree, curve.nweights, curve.nknots>>
              \o (IF curve.weights # <<>> /\ curve.nweights > 0
                  THEN DoubleSeqWords(curve.weights) ELSE <<>>)
              \o (IF curve.knots # <<>> /\ curve.nknots > 0
                  THEN DoubleSeqWords(curve.knots) ELSE <<>>)
              \o (IF ~curve.points.null /\ np > 0
                  THEN BlockWords(curve.points, (np * ptsize) \div 4) ELSE <<>>),
            IF ~curve.points.null /\ FLAGS_GET_ZM(curve.flags) # FLAGS_GET_ZM(curve.points)
            THEN <<Err("Dimensions mismatch in lwnurbscurve", 0, 0)>> ELSE <<>>)

RECURSIVE gserialized2_from_lwgeom_any(_)
gserialized2_from_lwgeom_any(g) ==
    CASE g.type = POINTTYPE -> gserialized2_from_lwpoint(g)
      [] g.type = LINETYPE -> gserialized2_from_lwline(g)
      [] g.type = POLYGONTYPE -> gserialized2_from_lwpoly(g)
      [] g.type = TRIANGLETYPE -> gserialized2_from_lwtriangle(g)
      [] g.type = CIRCSTRINGTYPE -> gserialized2_from_lwcircstring(g)
      [] g.type \in CollectionTypes ->
            \* gserialized2_from_lwcollection
            LET sub == [i \in 1..Len(g.geoms) |-> gserialized2_from_lwgeom_any(g.geoms[i])]
            IN  Out(<<g.type, Len(g.geoms)>> \o Flatten([i \in 1..Len(g.geoms) |-> sub[i].words]),
                    Flatten([i \in 1..Len(g.geoms) |->
                        (IF FLAGS_GET_ZM(g.flags) # FLAGS_GET_ZM(g.geoms[i].flags)
                         THEN <<Err("Dimensions mismatch in lwcollection", 0, 0)>> ELSE <<>>)
                        \o sub[i].errs]))
      [] g.type = NURBSCURVETYPE -> gserialized2_from_lwnurbscurve(g)
      [] OTHER -> Out(<<>>, <<Err("Unknown geometry type", g.type, 0)>>)

(***************************************************************************)
(* GBOX.  A box carries its flags and a min and max per ordinate; ordinates*)
(* the flags do not name are left 0.  A rounded box holds, instead of      *)
(* doubles, the bit patterns of the floats the doubles were rounded to.    *)
(***************************************************************************)
SetMin(S) == CHOOSE x \in S : \A y \in S : x <= y
SetMax(S) == CHOOSE x \in S : \A y \in S : x >= y

GBox(flags, xmin, xmax, ymin, ymax, zmin, zmax, mmin, mmax) ==
    [flags |-> flags, xmin |-> xmin, xmax |-> xmax, ymin |-> ymin, ymax |-> ymax,
     zmin |-> zmin, zmax |-> zmax, mmin |-> mmin, mmax |-> mmax]

\* no box: the result of a failed computation or read
NoBox == [flags |-> lwflags(FALSE, FALSE, FALSE), none |-> TRUE]
IsBox(b) == "xmin" \in DOMAIN b

\* the box of a geodetic geometry, in Earth-centred coordinates (lwgeodetic.c);
\* its content plays no part in the codec
GeocentricBox(flags) == GBox(flags, 0, 1, 0, 1, 0, 1, 0, 0)

\* lwgeom_calculate_gbox (gbox.c): NoBox for an empty geometry
lwgeom_calculate_gbox(g) ==
    LET P == AllPoints(g)
        f == lwflags(g.flags.z, g.flags.m, g.flags.geodetic)
    IN  IF P = {} THEN NoBox
        ELSE IF g.flags.geodetic THEN GeocentricBox(f)
        ELSE GBox(f,
                  SetMin({p.x : p \in P}), SetMax({p.x : p \in P}),
                  SetMin({p.y : p \in P}), SetMax({p.y : p \in P}),
                  IF g.flags.z THEN SetMin({p.z : p \in P}) ELSE 0,
                  IF g.flags.z THEN SetMax({p.z : p \in P}) ELSE 0,
                  IF g.flags.m THEN SetMin({p.m : p \in P}) ELSE 0,
                  IF g.flags.m THEN SetMax({p.m : p \in P}) ELSE 0)

\* the bits of the float equal to a double of the model; NaN bits for any other value
FloatBits(d) ==
    CASE d = 0 -> 0
      [] d = 1 -> 1065353216    \* 0x3F800000
      [] d = 2 -> 1073741824    \* 0x40000000
      [] d = 3 -> 1077936128    \* 0x40400000
      [] d = 4 -> 1082130432    \* 0x40800000
      [] OTHER -> 2143289344    \* 0x7FC00000

\* next_float_down / next_float_up (lwgeom_api.c): the bits of the next float
\* strictly below / above d
next_float_down(d) ==
    IF d = 0 THEN -2147483647   \* 0x80000001 as a signed word: the negative float nearest 0
    ELSE IF d \in Doubles THEN FloatBits(d) - 1
    ELSE FloatBits(d)

next_float_up(d) == IF d \in Doubles THEN FloatBits(d) + 1 ELSE FloatBits(d)

\* gbox_float_round (gbox.c)
gbox_float_round(gbox) ==
    IF ~IsBox(gbox) THEN gbox
    ELSE LET hasz == gbox.flags.z \/ gbox.flags.geodetic
         IN GBox(gbox.flags,
                 next_float_down(gbox.xmin), next_float_up(gbox.xmax),
                 next_float_down(gbox.ymin), next_float_up(gbox.ymax),
                 IF hasz THEN next_float_down(gbox.zmin) ELSE 0,
                 IF hasz THEN next_float_up(gbox.zmax) ELSE 0,
                 IF gbox.flags.m THEN next_float_down(gbox.mmin) ELSE 0,
                 IF gbox.flags.m THEN next_float_up(gbox.mmax) ELSE 0)

\* gserialized2_from_gbox: the float words of the stored box
gserialized2_from_gbox(gbox) ==
    <<next_float_down(gbox.xmin), next_float_up(gbox.xmax),
      next_float_down(gbox.ymin), next_float_up(gbox.ymax)>>
    \o (IF gbox.flags.geodetic
        THEN <<next_float_down(gbox.zmin), next_float_up(gbox.zmax)>>
        ELSE (IF gbox.flags.z
              THEN <<next_float_down(gbox.zmin), next_float_up(gbox.zmax)>> ELSE <<>>)
          \o (IF gbox.flags.m
              THEN <<next_float_down(gbox.mmin), next_float_up(gbox.mmax)>> ELSE <<>>))

\* gserialized2_from_extended_flags: the 64-bit extended flags, low word first
G2FLAG_X_SOLID == 1
gserialized2_from_extended_flags(flags) ==
    IF lwflags_uses_extended_flags(flags)
    THEN <<(IF flags.solid THEN G2FLAG_X_SOLID ELSE 0), 0>>
    ELSE <<>>

(***************************************************************************)
(* The GSERIALIZED header (gserialized2.h, gserialized2.c).  gflags is the *)
(* flag byte, srid the three SRID bytes, size the varsize field in bytes.  *)
(***************************************************************************)
G2FLAG_Z == 1
G2FLAG_M == 2
G2FLAG_BBOX == 4
G2FLAG_GEODETIC == 8
G2FLAG_EXTENDED == 16
G2FLAG_VER_0 == 64

\* whether the bit mask is set in byte x
BitSet(x, mask) == (x \div mask) % 2 = 1

lwflags_get_g2flags(flags) ==
    G2FLAG_Z * B(flags.z) + G2FLAG_M * B(flags.m) + G2FLAG_BBOX * B(flags.bbox)
      + G2FLAG_GEODETIC * B(flags.geodetic)
      + G2FLAG_EXTENDED * B(lwflags_uses_extended_flags(flags))
      + G2FLAG_VER_0

G2FLAGS_NDIMS(gflags) == 2 + B(BitSet(gflags, G2FLAG_Z)) + B(BitSet(gflags, G2FLAG_M))

gserialized2_has_bbox(g) == BitSet(g.gflags, G2FLAG_BBOX)
gserialized2_has_extended(g) == BitSet(g.gflags, G2FLAG_EXTENDED)

\* a read of the 32-bit word at byte offset off of the data area; a read past the
\* record finds 0
Word(g, off) == IF off \div 4 + 1 <= Len(g.data) THEN g.data[off \div 4 + 1] ELSE 0

\* a read of the double at byte offset off of the data area
DoubleAt(g, off) == DoubleFromWords(Word(g, off), Word(g, off + 4))

gserialized2_get_lwflags(g) ==
    [z |-> BitSet(g.gflags, G2FLAG_Z), m |-> BitSet(g.gflags, G2FLAG_M),
     bbox |-> BitSet(g.gflags, G2FLAG_BBOX), geodetic |-> BitSet(g.gflags, G2FLAG_GEODETIC),
     solid |-> BitSet(g.gflags, G2FLAG_EXTENDED) /\ Word(g, 0) % 2 = G2FLAG_X_SOLID]

gserialized2_box_size(g) ==
    IF BitSet(g.gflags, G2FLAG_GEODETIC) THEN 6 * 4 ELSE 2 * G2FLAGS_NDIMS(g.gflags) * 4

gserialized2_header_size(g) ==
    8 + (IF gserialized2_has_extended(g) THEN 8 ELSE 0)
      + (IF gserialized2_has_bbox(g) THEN gserialized2_box_size(g) ELSE 0)

\* gserialized2_get_geometry_p: the byte offset of the payload in the data area
gserialized2_get_geometry_p(g) ==
    (IF gserialized2_has_extended(g) THEN 8 ELSE 0)
      + (IF gserialized2_has_bbox(g) THEN gserialized2_box_size(g) ELSE 0)

gserialized2_get_type(g) == Word(g, gserialized2_get_geometry_p(g))

\* clamp_srid (lwutil.c), on the SRIDs of the model
clamp_srid(srid) == IF srid <= 0 THEN SRID_UNKNOWN ELSE srid

\* fault injection: gserialized2_set_srid storing the two low bytes only
gserialized2_set_srid_low_bytes(srid) ==
    LET s == IF clamp_srid(srid) = SRID_UNKNOWN THEN 0 ELSE clamp_srid(srid)
    IN  <<0, (s \div 256) % 256, s % 256>>

\* gserialized2_set_srid: the three SRID bytes
gserialized2_set_srid(srid) ==
    LET s == IF clamp_srid(srid) = SRID_UNKNOWN THEN 0 ELSE clamp_srid(srid)
    IN  <<(s \div 65536) % 32, (s \div 256) % 256, s % 256>>

gserialized2_get_srid(g) ==
    LET srid21 == g.srid[1] * 65536 + g.srid[2] * 256 + g.srid[3]
        \* (srid << 11) >> 11 : sign extension of the low 21 bits
        low == srid21 % 2097152
        srid == IF low >= 1048576 THEN low - 2097152 ELSE low
    IN  IF srid = 0 THEN SRID_UNKNOWN ELSE srid

(***************************************************************************)
(* gserialized2_from_lwgeom up to the size assertion: the geometry as the  *)
(* encoder leaves it, the predicted size, the record, the bytes written    *)
(* and the errors reported along the way.  needs_bbox is the answer of     *)
(* lwgeom_needs_bbox (lwgeom.c).                                           *)
(***************************************************************************)
gserialized2_from_lwgeom(g0, needs_bbox) ==
    LET addbox == ~g0.bbox /\ needs_bbox /\ ~lwgeom_is_empty(g0)
        g1 == [g0 EXCEPT !.bbox = g0.bbox \/ addbox,
                          !.flags = [g0.flags EXCEPT !.bbox = g0.bbox \/ addbox]]
        expected_size == gserialized2_from_lwgeom_size(g1)
        payload == gserialized2_from_lwgeom_any(g1)
        data == gserialized2_from_extended_flags(g1.flags)
                  \o (IF g1.bbox THEN gserialized2_from_gbox(lwgeom_calculate_gbox(g1)) ELSE <<>>)
                  \o payload.words
    IN  [geom |-> g1,
         expected_size |-> expected_size,
         return_size |-> 8 + 4 * Len(data),
         g |-> [size |-> expected_size, srid |-> gserialized2_set_srid(g1.srid),
                gflags |-> lwflags_get_g2flags(g1.flags), data |-> data],
         errs |-> gserialized2_from_any_size_errors(g1) \o payload.errs]

(***************************************************************************)
(* The geometries of the model.                                            *)
(***************************************************************************)
Dims == {<<FALSE, FALSE>>, <<TRUE, FALSE>>, <<FALSE, TRUE>>, <<TRUE, TRUE>>}

\* a Point, LineString, CircularString or Triangle over the base points idx
Leaf(type, d, idx) ==
    Geom(type, lwflags(d[1], d[2], FALSE), SRID_UNKNOWN, PA(d[1], d[2], idx), <<>>, <<>>)

\* a Polygon whose ring i holds the base points rings[i]
Poly(d, rings) ==
    Geom(POLYGONTYPE, lwflags(d[1], d[2], FALSE), SRID_UNKNOWN, NullPA,
         [i \in 1..Len(rings) |-> PA(d[1], d[2], rings[i])], <<>>)

\* a collection of the given type
Coll(type, d, geoms) ==
    Geom(type, lwflags(d[1], d[2], FALSE), SRID_UNKNOWN, NullPA, <<>>, geoms)

\* weights and knot vectors for n control points
SomeWeights(n) == [k \in 1..n |-> ((k - 1) % 4) + 1]
SomeKnots(n, degree) ==
    [k \in 1..(n + degree + 1) |-> IF k <= degree + 1 THEN 0 ELSE IF k > n THEN 4 ELSE 2]

\* a NurbsCurve built by lwnurbscurve_construct
Nurbs(d, points, degree, withw, withk) ==
    LET n == npoints(points)
        w == IF withw THEN SomeWeights(n) ELSE <<>>
        k == IF withk THEN SomeKnots(n, degree) ELSE <<>>
    IN  lwnurbscurve_construct(SRID_UNKNOWN, degree, points, w, k, Len(w), Len(k))

\* lwnurbscurve_construct_empty
lwnurbscurve_construct_empty(srid, hasz, hasm) ==
    [type |-> NURBSCURVETYPE, flags |-> lwflags(hasz, hasm, FALSE), srid |-> srid,
     bbox |-> FALSE, points |-> PtArray(hasz, hasm, <<>>), rings |-> <<>>, geoms |-> <<>>,
     degree |-> 1, nweights |-> 0, nknots |-> 0, weights |-> <<>>, knots |-> <<>>]

Points(d) == {Leaf(POINTTYPE, d, idx) : idx \in SeqsUpTo(1..2, 1)}
Lines(d) == {Leaf(LINETYPE, d, idx) : idx \in SeqsUpTo(1..2, MaxPoints)}
CircStrings(d) == {Leaf(CIRCSTRINGTYPE, d, Canon(n)) : n \in 0..MaxPoints}
Triangles(d) == {Leaf(TRIANGLETYPE, d, Canon(n)) : n \in 0..MaxPoints}
Polygons(d) == {Poly(d, rings) : rings \in SeqsUpTo({Canon(1), Canon(MaxPoints)}, MaxRings)}
NurbsCurves(d) ==
    {Nurbs(d, PA(d[1], d[2], Canon(n)), degree, withw, withk) :
        n \in 0..MaxPoints, degree \in 1..MaxDegree, withw \in BOOLEAN, withk \in BOOLEAN}
    \cup (IF d = <<FALSE, FALSE>>
          THEN {Nurbs(d, NullPA, degree, FALSE, FALSE) : degree \in 1..MaxDegree}
          ELSE {})

\* the children a collection of each type is given
Kids(type, d) ==
    LET pt == Leaf(POINTTYPE, d, <<1>>)
        ln == Leaf(LINETYPE, d, <<1, 2>>)
        cs == Leaf(CIRCSTRINGTYPE, d, Canon(MaxPoints))
        tr == Leaf(TRIANGLETYPE, d, Canon(MaxPoints))
        pg == Poly(d, <<Canon(MaxPoints)>>)
        cc == Coll(COMPOUNDTYPE, d, <<ln>>)
        cp == Coll(CURVEPOLYTYPE, d, <<cs>>)
        nempty == lwnurbscurve_construct_empty(SRID_UNKNOWN, d[1], d[2])
        nfull == Nurbs(d, PA(d[1], d[2], Canon(MaxPoints)), 1, TRUE, TRUE)
    IN  CASE type = MULTIPOINTTYPE -> {Leaf(POINTTYPE, d, <<>>), pt, Leaf(POINTTYPE, d, <<2>>)}
          [] type = MULTILINETYPE ->
                {Leaf(LINETYPE, d, <<>>), Leaf(LINETYPE, d, <<1>>), ln, Leaf(LINETYPE, d, <<2, 1>>)}
          [] type = MULTIPOLYGONTYPE -> {Poly(d, <<>>), pg, tr}
          [] type = COMPOUNDTYPE -> {Leaf(LINETYPE, d, <<>>), ln, cs}
          [] type = CURVEPOLYTYPE -> {ln, cs, cc}
          [] type = MULTICURVETYPE -> {ln, cs, cc}
          [] type = MULTISURFACETYPE -> {pg, cp}
          [] type = POLYHEDRALSURFACETYPE -> {Poly(d, <<>>), pg}
          [] type = TINTYPE -> {Leaf(TRIANGLETYPE, d, <<>>), tr}
          [] type = COLLECTIONTYPE ->
                {Leaf(POINTTYPE, d, <<>>), pt, nempty, nfull, Coll(MULTIPOINTTYPE, d, <<pt>>)}

\* the collection types given children in every dimension; the others are given
\* children in XY and XYZM
EveryDimTypes == {MULTIPOINTTYPE, MULTILINETYPE}

Collections(d) ==
    UNION {{Coll(type, d, geoms) : geoms \in SeqsUpTo(Kids(type, d), MaxGeoms)} :
              type \in IF d[1] = d[2] THEN CollectionTypes ELSE EveryDimTypes}

\* collections two and three levels deep around NurbsCurves
NestedCollections(d) ==
    LET pt == Leaf(POINTTYPE, d, <<1>>)
        nempty == lwnurbscurve_construct_empty(SRID_UNKNOWN, d[1], d[2])
        nfull == Nurbs(d, PA(d[1], d[2], Canon(MaxPoints)), 1, TRUE, TRUE)
        inner == {Coll(COLLECTIONTYPE, d, <<nempty, pt>>), Coll(COLLECTIONTYPE, d, <<nempty>>),
                  Coll(COLLECTIONTYPE, d, <<nfull, nempty>>),
                  Coll(COLLECTIONTYPE, d, <<nempty, nempty>>)}
    IN  IF d[1] # d[2] THEN {}
        ELSE {Coll(COLLECTIONTYPE, d, <<c>>) : c \in inner}
               \cup {Coll(COLLECTIONTYPE, d, <<Coll(COLLECTIONTYPE, d, <<c>>), nempty>>) : c \in inner}

\* the geometries that keep the invariants of the format
ValidGeoms(d) ==
    Points(d) \cup Lines(d) \cup CircStrings(d) \cup Triangles(d) \cup Polygons(d)
      \cup NurbsCurves(d) \cup Collections(d) \cup NestedCollections(d)

\* geometries whose flags disagree with a coordinate block they hold: the pairs are
\* the dimensions of the geometry and of its block
MismatchDims ==
    {<<<<FALSE, FALSE>>, <<FALSE, TRUE>>>>, <<<<FALSE, TRUE>>, <<FALSE, FALSE>>>>,
     <<<<TRUE, FALSE>>, <<FALSE, FALSE>>>>, <<<<FALSE, FALSE>>, <<TRUE, FALSE>>>>,
     <<<<TRUE, FALSE>>, <<FALSE, TRUE>>>>}

WithBlock(g, d) == [g EXCEPT !.points = PA(d[1], d[2], Canon(npoints(g.points)))]

MismatchedLeaves ==
    UNION {{WithBlock(Leaf(POINTTYPE, dd[1], <<1>>), dd[2]),
            WithBlock(Leaf(LINETYPE, dd[1], Canon(MaxPoints)), dd[2]),
            WithBlock(Leaf(CIRCSTRINGTYPE, dd[1], Canon(MaxPoints)), dd[2]),
            WithBlock(Leaf(TRIANGLETYPE, dd[1], Canon(MaxPoints)), dd[2]),
            WithBlock(Nurbs(dd[1], PA(dd[1][1], dd[1][2], Canon(MaxPoints)), 1, FALSE, FALSE),
                      dd[2])} : dd \in MismatchDims}
    \cup {[Poly(<<FALSE, FALSE>>, <<Canon(MaxPoints)>>) EXCEPT
              !.rings = <<PA(d[1], d[2], Canon(MaxPoints))>>] :
            d \in {<<FALSE, TRUE>>, <<TRUE, FALSE>>}}

\* collections holding a child whose flags disagree with the collection's
MismatchedCollections ==
    {Coll(MULTIPOINTTYPE, <<FALSE, FALSE>>, <<Leaf(POINTTYPE, <<FALSE, TRUE>>, <<1>>)>>),
     Coll(MULTILINETYPE, <<TRUE, FALSE>>, <<Leaf(LINETYPE, <<FALSE, FALSE>>, <<1, 2>>)>>),
     Coll(COLLECTIONTYPE, <<FALSE, FALSE>>,
          <<Leaf(POINTTYPE, <<FALSE, FALSE>>, <<1>>), Leaf(LINETYPE, <<TRUE, TRUE>>, <<1, 2>>)>>),
     Coll(COLLECTIONTYPE, <<FALSE, FALSE>>,
          <<Coll(MULTIPOINTTYPE, <<FALSE, FALSE>>,
                 <<Leaf(POINTTYPE, <<TRUE, FALSE>>, <<1>>)>>)>>)}

\* geometries of a type the codec does not know, at the root and inside collections
UnknownGeoms ==
    UNION {{Geom(t, lwflags(FALSE, FALSE, FALSE), SRID_UNKNOWN, NullPA, <<>>, <<>>),
            Coll(COLLECTIONTYPE, <<FALSE, FALSE>>,
                 <<Leaf(POINTTYPE, <<FALSE, FALSE>>, <<1>>),
                   Geom(t, lwflags(FALSE, FALSE, FALSE), SRID_UNKNOWN, NullPA, <<>>, <<>>)>>),
            Coll(COLLECTIONTYPE, <<FALSE, FALSE>>,
                 <<Coll(COLLECTIONTYPE, <<FALSE, FALSE>>,
                     <<Geom(t, lwflags(FALSE, FALSE, FALSE), SRID_UNKNOWN, NullPA, <<>>, <<>>)>>),
                   Leaf(POINTTYPE, <<FALSE, FALSE>>, <<1>>)>>)} : t \in UnknownTypes}

\* a child the collection type does not admit
BadKid(type, d) ==
    IF type \in {MULTIPOINTTYPE, MULTIPOLYGONTYPE, MULTISURFACETYPE, POLYHEDRALSURFACETYPE, TINTYPE}
    THEN Leaf(LINETYPE, d, <<1>>)
    ELSE Leaf(POINTTYPE, d, <<1>>)

\* collections holding a child of a type they do not admit, at the root and one and
\* two levels down
InadmissibleCollections ==
    LET d == <<FALSE, FALSE>>
        pt == Leaf(POINTTYPE, d, <<1>>)
        Bad(type) == {Coll(type, d, <<BadKid(type, d)>>)}
                       \cup {Coll(type, d, <<k, BadKid(type, d)>>) : k \in Kids(type, d)}
        AllBad == UNION {Bad(type) : type \in CollectionTypes \ {COLLECTIONTYPE}}
    IN  AllBad
          \cup {Coll(COLLECTIONTYPE, d, <<b>>) : b \in AllBad}
          \cup {Coll(COLLECTIONTYPE, d, <<b, pt>>) : b \in AllBad}
          \cup {Coll(COLLECTIONTYPE, d, <<pt, Coll(COLLECTIONTYPE, d, <<b>>)>>) : b \in AllBad}

InvalidGeoms ==
    MismatchedLeaves \cup MismatchedCollections \cup UnknownGeoms \cup InadmissibleCollections

RECURSIVE lwgeom_set_srid(_, _)
\* lwgeom_set_srid (lwgeom.c): the SRID of the geometry and of all it contains
lwgeom_set_srid(g, srid) ==
    [g EXCEPT !.srid = srid,
              !.geoms = [i \in 1..Len(g.geoms) |-> lwgeom_set_srid(g.geoms[i], srid)]]

RECURSIVE lwgeom_set_geodetic(_, _)
\* lwgeom_set_geodetic (lwgeom.c): the geodetic flag of the geometry and of all it contains
lwgeom_set_geodetic(g, value) ==
    [g EXCEPT !.flags = [g.flags EXCEPT !.geodetic = value],
              !.geoms = [i \in 1..Len(g.geoms) |-> lwgeom_set_geodetic(g.geoms[i], value)]]

\* the forms a caller hands a geometry in: with a known SRID, geodetic, solid,
\* or carrying the box lwgeom_add_bbox computes
Variants(g) ==
    {g, lwgeom_set_srid(g, SRID_WGS84),
     lwgeom_set_geodetic(lwgeom_set_srid(g, SRID_WGS84), TRUE),
     [g EXCEPT !.flags = [g.flags EXCEPT !.solid = TRUE]]}
    \cup (IF lwgeom_is_empty(g) THEN {}
          ELSE {[g EXCEPT !.bbox = TRUE, !.flags = [g.flags EXCEPT !.bbox = TRUE]]})

GeomSet ==
    UNION {Variants(g) : g \in UNION {ValidGeoms(d) : d \in Dims}} \cup InvalidGeoms

RECURSIVE Valid(_)
\* the invariants of an in-memory geometry: a known type, flags that match every
\* coordinate block and every child, admissible children, and for a NurbsCurve
\* weights and knots that are absent or as many as the counts say
Valid(g) ==
    CASE g.type \in {POINTTYPE, LINETYPE, CIRCSTRINGTYPE, TRIANGLETYPE} ->
            /\ ~g.points.null
            /\ FLAGS_GET_ZM(g.points) = FLAGS_GET_ZM(g.flags)
            /\ g.type = POINTTYPE => npoints(g.points) <= 1
      [] g.type = POLYGONTYPE ->
            \A i \in 1..Len(g.rings) : FLAGS_GET_ZM(g.rings[i]) = FLAGS_GET_ZM(g.flags)
      [] g.type = NURBSCURVETYPE ->
            /\ g.points.null \/ FLAGS_GET_ZM(g.points) = FLAGS_GET_ZM(g.flags)
            /\ g.degree >= 1 /\ g.degree <= 10
            /\ g.nweights = Len(g.weights) /\ g.nweights \in {0, npoints(g.points)}
            /\ g.nknots = Len(g.knots) /\ g.nknots \in {0, npoints(g.points) + g.degree + 1}
      [] g.type \in CollectionTypes ->
            \A i \in 1..Len(g.geoms) :
                /\ lwcollection_allows_subtype(g.type, g.geoms[i].type)
                /\ FLAGS_GET_ZM(g.geoms[i].flags) = FLAGS_GET_ZM(g.flags)
                /\ g.geoms[i].srid = g.srid
                /\ Valid(g.geoms[i])
      [] OTHER -> FALSE

(***************************************************************************)
(* GS2 decoder (gserialized2.c).  A buffer decoder reads the record g at   *)
(* byte offset p of its data area and yields the geometry (NullGeom for a  *)
(* NULL return), the bytes it consumed and the errors it reported.  A      *)
(* decoder that returns NULL leaves the caller's size untouched.           *)
(***************************************************************************)
Decoded(lwgeom, size, errs) == [lwgeom |-> lwgeom, size |-> size, errs |-> errs]

\* ptarray_construct_reference_data: n points read in place at offset p
ptarray_construct_reference_data(g, hasz, hasm, n, p) ==
    LET ndims == 2 + B(hasz) + B(hasm)
    IN  PtArray(hasz, hasm,
                [k \in 1..n |-> [j \in 1..ndims |-> DoubleAt(g, p + 8 * ((k - 1) * ndims + (j - 1)))]])

\* ptarray_construct with no point
ptarray_construct_0(hasz, hasm) == PtArray(hasz, hasm, <<>>)

\* lwline_, lwtriangle_, lwcircstring_from_gserialized2_buffer share one body
LeafFromBuffer(type, g, p, flags, srid) ==
    LET n == Word(g, p + 4)
    IN  Decoded(Geom(type, flags, srid,
                     IF n > 0 THEN ptarray_construct_reference_data(g, flags.z, flags.m, n, p + 8)
                     ELSE ptarray_construct_0(flags.z, flags.m),
                     <<>>, <<>>),
                8 + 8 * FLAGS_NDIMS(flags) * n, <<>>)

lwpoint_from_gserialized2_buffer(g, p, flags, srid) ==
    LET n == Word(g, p + 4)
    IN  Decoded(Geom(POINTTYPE, flags, srid,
                     IF n > 0 THEN ptarray_construct_reference_data(g, flags.z, flags.m, 1, p + 8)
                     ELSE ptarray_construct_0(flags.z, flags.m),
                     <<>>, <<>>),
                8 + 8 * n * FLAGS_NDIMS(flags), <<>>)

lwline_from_gserialized2_buffer(g, p, flags, srid) == LeafFromBuffer(LINETYPE, g, p, flags, srid)

lwtriangle_from_gserialized2_buffer(g, p, flags, srid) ==
    LeafFromBuffer(TRIANGLETYPE, g, p, flags, srid)

\* Fault injection: a CircularString decoder that builds a LineString
lwcircstring_from_gserialized2_buffer_as_line(g, p, flags, srid) ==
    LeafFromBuffer(LINETYPE, g, p, flags, srid)

lwcircstring_from_gserialized2_buffer(g, p, flags, srid) ==
    LeafFromBuffer(CIRCSTRINGTYPE, g, p, flags, srid)

RECURSIVE RingsFromBuffer(_, _, _, _, _, _)
\* the loop over the rings of lwpoly_from_gserialized2_buffer: ring i has its count
\* at data_ptr and its ordinates at ordinate_ptr
RingsFromBuffer(g, flags, i, nrings, data_ptr, ordinate_ptr) ==
    IF i > nrings THEN [rings |-> <<>>, ordinate_ptr |-> ordinate_ptr]
    ELSE LET n == Word(g, data_ptr)
             rest == RingsFromBuffer(g, flags, i + 1, nrings, data_ptr + 4,
                                     ordinate_ptr + 8 * FLAGS_NDIMS(flags) * n)
         IN  [rings |-> <<ptarray_construct_reference_data(g, flags.z, flags.m, n, ordinate_ptr)>>
                          \o rest.rings,
              ordinate_ptr |-> rest.ordinate_ptr]

lwpoly_from_gserialized2_buffer(g, p, flags, srid) ==
    LET nrings == Word(g, p + 4)
        first == p + 8 + (IF nrings > 0
                          THEN nrings * 4 + (IF nrings % 2 = 1 THEN 4 ELSE 0) ELSE 0)
        r == RingsFromBuffer(g, flags, 1, nrings, p + 8, first)
    IN  Decoded(Geom(POLYGONTYPE, flags, srid, NullPA, r.rings, <<>>), r.ordinate_ptr - p, <<>>)

\* lwnurbscurve_from_gserialized2_buffer: it is handed no SRID
lwnurbscurve_from_gserialized2_buffer(g, p, flags) ==
    LET np == Word(g, p + 4)
        degree == Word(g, p + 8)
        nweights == Word(g, p + 12)
        nknots == Word(g, p + 16)
        wp == p + 20
        kp == wp + (IF nweights > 0 THEN 8 * nweights ELSE 0)
        pp == kp + (IF nknots > 0 THEN 8 * nknots ELSE 0)
    IN  Decoded([type |-> NURBSCURVETYPE, flags |-> flags, srid |-> SRID_UNKNOWN,
                 bbox |-> FALSE,
                 points |-> IF np > 0
                            THEN ptarray_construct_reference_data(g, flags.z, flags.m, np, pp)
                            ELSE ptarray_construct_0(flags.z, flags.m),
                 rings |-> <<>>, geoms |-> <<>>,
                 degree |-> degree, nweights |-> nweights, nknots |-> nknots,
                 weights |-> IF nweights > 0
                             THEN [k \in 1..nweights |-> DoubleAt(g, wp + 8 * (k - 1))] ELSE <<>>,
                 knots |-> IF nknots > 0
                           THEN [k \in 1..nknots |-> DoubleAt(g, kp + 8 * (k - 1))] ELSE <<>>],
                pp + 8 * FLAGS_NDIMS(flags) * np - p, <<>>)

RECURSIVE lwgeom_from_gserialized2_buffer(_, _, _, _)
RECURSIVE SubgeomsFromBuffer(_, _, _, _, _, _, _)
\* the loop over the children of lwcollection_from_gserialized2_buffer, from child i
\* at data_ptr: refused is set when a child type is not admitted (the collection is
\* freed and NULL returned); a child decoder that returns NULL leaves subsize 0 and
\* its NULL in geoms
SubgeomsFromBuffer(g, type, flags, srid, i, ngeoms, data_ptr) ==
    IF i > ngeoms THEN [refused |-> FALSE, geoms |-> <<>>, data_ptr |-> data_ptr, errs |-> <<>>]
    ELSE LET subtype == Word(g, data_ptr)
         IN  IF ~lwcollection_allows_subtype(type, subtype)
             THEN [refused |-> TRUE, geoms |-> <<>>, data_ptr |-> data_ptr,
                   errs |-> <<Err("Invalid subtype for collection type", subtype, type)>>]
             ELSE LET sub == lwgeom_from_gserialized2_buffer(g, data_ptr, flags, srid)
                      rest == SubgeomsFromBuffer(g, type, flags, srid, i + 1, ngeoms,
                                                 data_ptr + sub.size)
                  IN  [refused |-> rest.refused, geoms |-> <<sub.lwgeom>> \o rest.geoms,
                       data_ptr |-> rest.data_ptr, errs |-> sub.errs \o rest.errs]

lwcollection_from_gserialized2_buffer(g, p, flags, srid) ==
    LET type == Word(g, p)
        ngeoms == Word(g, p + 4)
        \* sub-geometries are never de-serialized with boxes
        r == SubgeomsFromBuffer(g, type, [flags EXCEPT !.bbox = FALSE], srid, 1, ngeoms, p + 8)
    IN  IF r.refused THEN Decoded(NullGeom, 0, r.errs)
        ELSE Decoded(Geom(type, flags, srid, NullPA, <<>>, r.geoms), r.data_ptr - p, r.errs)

lwgeom_from_gserialized2_buffer(g, p, flags, srid) ==
    LET type == Word(g, p)
    IN  CASE type = POINTTYPE -> lwpoint_from_gserialized2_buffer(g, p, flags, srid)
          [] type = LINETYPE -> lwline_from_gserialized2_buffer(g, p, flags, srid)
          [] type = CIRCSTRINGTYPE -> lwcircstring_from_gserialized2_buffer(g, p, flags, srid)
          [] type = POLYGONTYPE -> lwpoly_from_gserialized2_buffer(g, p, flags, srid)
          [] type = TRIANGLETYPE -> lwtriangle_from_gserialized2_buffer(g, p, flags, srid)
          [] type \in CollectionTypes -> lwcollection_from_gserialized2_buffer(g, p, flags, srid)
          [] type = NURBSCURVETYPE -> lwnurbscurve_from_gserialized2_buffer(g, p, flags)
          [] OTHER -> Decoded(NullGeom, 0, <<Err("Unknown geometry type", type, 0)>>)

\* gserialized2_read_gbox_p: the stored box, as the floats' bit patterns
gserialized2_read_gbox_p(g) ==
    IF ~BitSet(g.gflags, G2FLAG_BBOX) THEN NoBox
    ELSE LET fp == IF gserialized2_has_extended(g) THEN 8 ELSE 0
             f(i) == Word(g, fp + 4 * i)
             geodetic == BitSet(g.gflags, G2FLAG_GEODETIC)
             hasz == BitSet(g.gflags, G2FLAG_Z)
             hasm == BitSet(g.gflags, G2FLAG_M)
         IN  GBox(gserialized2_get_lwflags(g), f(0), f(1), f(2), f(3),
                  IF geodetic \/ hasz THEN f(4) ELSE 0,
                  IF geodetic \/ hasz THEN f(5) ELSE 0,
                  IF ~geodetic /\ hasm THEN f(IF hasz THEN 6 ELSE 4) ELSE 0,
                  IF ~geodetic /\ hasm THEN f(IF hasz THEN 7 ELSE 5) ELSE 0)

\* lwgeom_from_gserialized2 up to the test of the decoded pointer: the buffer
\* decoder's result for the payload of g
lwgeom_from_gserialized2(g) ==
    LET srid == gserialized2_get_srid(g)
        flags == gserialized2_get_lwflags(g)
        data_ptr == (IF BitSet(g.gflags, G2FLAG_EXTENDED) THEN 8 ELSE 0)
                      + (IF flags.bbox THEN gbox_serialized_size(flags) ELSE 0)
    IN  lwgeom_from_gserialized2_buffer(g, data_ptr, flags, srid)

(***************************************************************************)
(* The probes of a record (gserialized2.c).                                *)
(***************************************************************************)
RECURSIVE gserialized2_is_empty_recurse(_, _)
RECURSIVE IsEmptyLoop(_, _, _, _, _)
\* the loop over the children in gserialized2_is_empty_recurse: child i of num is
\* probed at offset p + lz
IsEmptyLoop(g, p, i, num, lz) ==
    IF i >= num THEN [isempty |-> TRUE, size |-> lz]
    ELSE LET sub == gserialized2_is_empty_recurse(g, p + lz)
         IN  IF ~sub.isempty THEN [isempty |-> FALSE, size |-> lz + sub.size]
             ELSE IsEmptyLoop(g, p, i + 1, num, lz + sub.size)

\* the emptiness found at offset p and the bytes to advance by
gserialized2_is_empty_recurse(g, p) ==
    LET type == Word(g, p)
        num == Word(g, p + 4)
    IN  IF lwtype_is_collection(type) THEN IsEmptyLoop(g, p, 0, num, 8)
        ELSE [isempty |-> (num = 0), size |-> 8]

gserialized2_is_empty(g) ==
    gserialized2_is_empty_recurse(g, gserialized2_get_geometry_p(g)).isempty

\* the box of the single point whose ordinates start at double index i of the payload
PeekPointBox(g, p, i) ==
    LET hasz == BitSet(g.gflags, G2FLAG_Z)
        hasm == BitSet(g.gflags, G2FLAG_M)
        d(k) == DoubleAt(g, p + 8 * k)
        zi == i + 2
        mi == i + 2 + B(hasz)
    IN  GBox(gserialized2_get_lwflags(g), d(i), d(i), d(i + 1), d(i + 1),
             IF hasz THEN d(zi) ELSE 0, IF hasz THEN d(zi) ELSE 0,
             IF hasm THEN d(mi) ELSE 0, IF hasm THEN d(mi) ELSE 0)

\* Fault injection: the box of a line taken from its first point alone
PeekLineBoxFirstPoint(g, p, i) == PeekPointBox(g, p, i)

\* the box of the two points whose ordinates start at double index i of the payload
PeekLineBox(g, p, i) ==
    LET ndims == G2FLAGS_NDIMS(g.gflags)
        hasz == BitSet(g.gflags, G2FLAG_Z)
        hasm == BitSet(g.gflags, G2FLAG_M)
        d(k) == DoubleAt(g, p + 8 * k)
        lo(k) == FP_MIN(d(k), d(k + ndims))
        hi(k) == FP_MAX(d(k), d(k + ndims))
        zi == i + 2
        mi == i + 2 + B(hasz)
    IN  GBox(gserialized2_get_lwflags(g), lo(i), hi(i), lo(i + 1), hi(i + 1),
             IF hasz THEN lo(zi) ELSE 0, IF hasz THEN hi(zi) ELSE 0,
             IF hasm THEN lo(mi) ELSE 0, IF hasm THEN hi(mi) ELSE 0)

\* Fault injection: a peek that knows Points and LineStrings only
gserialized2_peek_gbox_p_leaves(g) ==
    LET type == gserialized2_get_type(g)
        p == gserialized2_get_geometry_p(g)
        iptr(k) == Word(g, p + 4 * k)
    IN  IF BitSet(g.gflags, G2FLAG_GEODETIC) \/ BitSet(g.gflags, G2FLAG_BBOX) THEN NoBox
        ELSE IF type = POINTTYPE
        THEN IF iptr(1) = 0 THEN NoBox ELSE gbox_float_round(PeekPointBox(g, p, 1))
        ELSE IF type = LINETYPE
        THEN IF iptr(1) # 2 THEN NoBox ELSE gbox_float_round(PeekLineBox(g, p, 1))
        ELSE NoBox

\* gserialized2_peek_gbox_p: the rounded box, or NoBox for LW_FAILURE
gserialized2_peek_gbox_p(g) ==
    LET type == gserialized2_get_type(g)
        p == gserialized2_get_geometry_p(g)
        iptr(k) == Word(g, p + 4 * k)
    IN  IF BitSet(g.gflags, G2FLAG_GEODETIC) \/ BitSet(g.gflags, G2FLAG_BBOX) THEN NoBox
        ELSE IF type = POINTTYPE
        THEN IF iptr(1) = 0 THEN NoBox ELSE gbox_float_round(PeekPointBox(g, p, 1))
        ELSE IF type = LINETYPE
        THEN IF iptr(1) # 2 THEN NoBox ELSE gbox_float_round(PeekLineBox(g, p, 1))
        ELSE IF type = MULTIPOINTTYPE
        THEN IF iptr(1) # 1 THEN NoBox
             ELSE IF iptr(3) # 1 THEN NoBox
             ELSE gbox_float_round(PeekPointBox(g, p, 2))
        ELSE IF type = MULTILINETYPE
        THEN IF iptr(1) # 1 THEN NoBox
             ELSE IF iptr(3) # 2 THEN NoBox
             ELSE gbox_float_round(PeekLineBox(g, p, 2))
        ELSE NoBox

\* the last branch of gserialized2_get_gbox_p: decode, compute the box, round it
DecodeAndCalculateBox(g) ==
    gbox_float_round(lwgeom_calculate_gbox(
        [lwgeom_from_gserialized2(g).lwgeom EXCEPT !.type = gserialized2_get_type(g),
                                                   !.flags = gserialized2_get_lwflags(g)]))

\* gserialized2_get_gbox_p
gserialized2_get_gbox_p(g) ==
    IF IsBox(gserialized2_read_gbox_p(g)) THEN gserialized2_read_gbox_p(g)
    ELSE IF IsBox(gserialized2_peek_gbox_p(g)) THEN gserialized2_peek_gbox_p(g)
    ELSE DecodeAndCalculateBox(g)

(***************************************************************************)
(* WKB writer (lwout_wkb.c).  A variant is the bit mask the caller passes. *)
(* The output is the sequence of bytes stored from the write head on: a    *)
(* byte 0..255 in binary output, the ASCII code of a character of hexchr   *)
(* in hex output.  big_endian is IS_BIG_ENDIAN, fixed by the build.  A     *)
(* uint32_t is kept as <<top byte, low 24 bits>>.                          *)
(*                                                                         *)
(* The primitive writers (endian_, integer_, byte_, double_to_wkb_buf)     *)
(* yield the bytes they store.  The writers of geometries yield the same   *)
(* bytes as a sequence of fields, one per call of a primitive writer or    *)
(* memcpy, each named after the value the call site passes; the buffer     *)
(* holds the bytes of the fields one after the other.                      *)
(***************************************************************************)
WKB_ISO == 1
WKB_SFSQL == 2
WKB_EXTENDED == 4
WKB_NDR == 8
WKB_XDR == 16
WKB_HEX == 32
WKB_NO_NPOINTS == 64
WKB_NO_SRID == 128

\* variant | flag
WithFlag(variant, flag) == IF BitSet(variant, flag) THEN variant ELSE variant + flag

WKB_BYTE_SIZE == 1
WKB_INT_SIZE == 4
WKB_DOUBLE_SIZE == 8

\* the top byte of a type word: WKBZOFFSET 0x80000000, WKBMOFFSET 0x40000000,
\* WKBSRIDFLAG 0x20000000
WKBZOFFSET == 128
WKBMOFFSET == 64
WKBSRIDFLAG == 32

WKB_NURBSCURVE_TYPE == 18

\* the WKB type number of each geometry type; 0 for a type the switch does not list
WkbBaseType(type) ==
    CASE type = POINTTYPE -> 1
      [] type = LINETYPE -> 2
      [] type = POLYGONTYPE -> 3
      [] type = MULTIPOINTTYPE -> 4
      [] type = MULTILINETYPE -> 5
      [] type = MULTIPOLYGONTYPE -> 6
      [] type = COLLECTIONTYPE -> 7
      [] type = CIRCSTRINGTYPE -> 8
      [] type = COMPOUNDTYPE -> 9
      [] type = CURVEPOLYTYPE -> 10
      [] type = MULTICURVETYPE -> 11
      [] type = MULTISURFACETYPE -> 12
      [] type = POLYHEDRALSURFACETYPE -> 15
      [] type = TINTYPE -> 16
      [] type = TRIANGLETYPE -> 17
      [] type = NURBSCURVETYPE -> WKB_NURBSCURVE_TYPE
      [] OTHER -> 0

U32(n) == <<n \div 16777216, n % 16777216>>

\* static char *hexchr = "0123456789ABCDEF", as ASCII codes
hexchr == <<48, 49, 50, 51, 52, 53, 54, 55, 56, 57, 65, 66, 67, 68, 69, 70>>

Reverse(s) == [k \in 1..Len(s) |-> s[Len(s) + 1 - k]]

\* fault injection: the low nibble of the byte written first
HexOf_low_nibble_first(b) == <<hexchr[(b % 16) + 1], hexchr[(b \div 16) + 1]>>

\* the two characters a byte is written as in hex output
HexOf(b) == <<hexchr[(b \div 16) + 1], hexchr[(b % 16) + 1]>>

\* the bytes as the buffer receives them: themselves, or two characters each
Emit(bytes, variant) ==
    IF BitSet(variant, WKB_HEX) THEN Flatten([k \in 1..Len(bytes) |-> HexOf(bytes[k])])
    ELSE bytes

\* the four bytes of a 32-bit word in memory, lowest address first
WordBytes(w, big_endian) ==
    LET le == <<w % 256, (w \div 256) % 256, (w \div 65536) % 256, w \div 16777216>>
    IN  IF big_endian THEN Reverse(le) ELSE le

\* the memory image of a uint32_t
IntBytes(u, big_endian) ==
    LET le == <<u[2] % 256, (u[2] \div 256) % 256, u[2] \div 65536, u[1]>>
    IN  IF big_endian THEN Reverse(le) ELSE le

\* one field of the output: the bytes one call stored, and what the caller passed
Field(kind, bytes) == <<[kind |-> kind, bytes |-> bytes]>>

\* the bytes of a sequence of fields, as they lie in the buffer
FieldBytes(fields) == Flatten([k \in 1..Len(fields) |-> fields[k].bytes])

lwgeom_has_srid(g) == g.srid # SRID_UNKNOWN

\* fault injection: lwgeom_wkb_needs_srid without its test of WKB_NO_SRID, the
\* flag a collection sets for its sub-geometries
lwgeom_wkb_needs_srid_despite_no_srid(g, variant) ==
    BitSet(variant, WKB_EXTENDED) /\ lwgeom_has_srid(g)

lwgeom_wkb_needs_srid(g, variant) ==
    IF BitSet(variant, WKB_NO_SRID) THEN FALSE
    ELSE BitSet(variant, WKB_EXTENDED) /\ lwgeom_has_srid(g)

\* fault injection: lwgeom_wkb_type without its NurbsCurve branch, so that a
\* NurbsCurve follows the dialect like every other type
lwgeom_wkb_type_nurbs_as_others(g, variant) ==
    LET wkb_type == WkbBaseType(g.type)
    IN  IF BitSet(variant, WKB_EXTENDED)
        THEN <<(IF g.flags.z THEN WKBZOFFSET ELSE 0) + (IF g.flags.m THEN WKBMOFFSET ELSE 0)
                 + (IF lwgeom_wkb_needs_srid(g, variant) THEN WKBSRIDFLAG ELSE 0), wkb_type>>
        ELSE IF BitSet(variant, WKB_ISO)
        THEN <<0, wkb_type + (IF g.flags.z THEN 1000 ELSE 0) + (IF g.flags.m THEN 2000 ELSE 0)>>
        ELSE <<0, wkb_type>>

\* lwgeom_wkb_type: the type word; an unlisted type reports and goes on with 0
lwgeom_wkb_type(g, variant) ==
    LET wkb_type == WkbBaseType(g.type)
    IN  IF g.type = NURBSCURVETYPE
        THEN <<0, wkb_type + (IF g.flags.z /\ ~g.flags.m THEN 1000
                              ELSE IF g.flags.m /\ ~g.flags.z THEN 2000
                              ELSE IF g.flags.z /\ g.flags.m THEN 3000 ELSE 0)>>
        ELSE IF BitSet(variant, WKB_EXTENDED)
        THEN <<(IF g.flags.z THEN WKBZOFFSET ELSE 0) + (IF g.flags.m THEN WKBMOFFSET ELSE 0)
                 + (IF lwgeom_wkb_needs_srid(g, variant) THEN WKBSRIDFLAG ELSE 0), wkb_type>>
        ELSE IF BitSet(variant, WKB_ISO)
        THEN <<0, wkb_type + (IF g.flags.z THEN 1000 ELSE 0) + (IF g.flags.m THEN 2000 ELSE 0)>>
        ELSE <<0, wkb_type>>

lwgeom_wkb_type_errors(g) ==
    IF WkbBaseType(g.type) = 0 THEN <<Err("Unsupported geometry type", g.type, 0)>> ELSE <<>>

endian_to_wkb_buf(variant) ==
    IF BitSet(variant, WKB_HEX)
    THEN <<48, IF BitSet(variant, WKB_NDR) THEN 49 ELSE 48>>
    ELSE <<IF BitSet(variant, WKB_NDR) THEN 1 ELSE 0>>

wkb_swap_bytes(variant, big_endian) ==
    ~ (\/ BitSet(variant, WKB_NDR) /\ ~big_endian
       \/ ~BitSet(variant, WKB_NDR) /\ big_endian)

integer_to_wkb_buf(ival, variant, big_endian) ==
    LET iptr == IntBytes(ival, big_endian)
    IN  Emit(IF wkb_swap_bytes(variant, big_endian) THEN Reverse(iptr) ELSE iptr, variant)

byte_to_wkb_buf(bval, variant) == Emit(<<bval>>, variant)

\* fault injection: double_nan_to_wkb_buf with the little-endian image of NaN
\* whatever the byte order asked for
double_nan_to_wkb_buf_ndr_only(variant) == Emit(<<0, 0, 0, 0, 0, 0, 248, 127>>, variant)

double_nan_to_wkb_buf(variant) ==
    LET ndr_nan == <<0, 0, 0, 0, 0, 0, 248, 127>>
        xdr_nan == <<127, 248, 0, 0, 0, 0, 0, 0>>
    IN  Emit(IF BitSet(variant, WKB_NDR) THEN ndr_nan ELSE xdr_nan, variant)

\* the image of the fraction num/den: a value of Doubles, or a knot of a generated vector
FractionWords(num, den) ==
    CASE den = 1 -> DoubleWords(num)
      [] <<num, den>> = <<1, 2>> -> <<0, 1071644672>>              \* 0x3FE00000 00000000
      [] <<num, den>> = <<1, 3>> -> <<1431655765, 1070945621>>     \* 0x3FD55555 55555555
      [] <<num, den>> = <<2, 3>> -> <<1431655765, 1071994197>>     \* 0x3FE55555 55555555
      [] <<num, den>> = <<1, 4>> -> <<0, 1070596096>>              \* 0x3FD00000 00000000
      [] <<num, den>> = <<3, 4>> -> <<0, 1072168960>>              \* 0x3FE80000 00000000

\* the eight bytes in memory, lowest address first, of the double whose words are w
ImageBytes(w, big_endian) ==
    IF big_endian THEN WordBytes(w[2], TRUE) \o WordBytes(w[1], TRUE)
    ELSE WordBytes(w[1], FALSE) \o WordBytes(w[2], FALSE)

DoubleBytes(d, big_endian) == ImageBytes(DoubleWords(d), big_endian)

\* double_to_wkb_buf for the double whose words are w
image_to_wkb_buf(w, variant, big_endian) ==
    LET dptr == ImageBytes(w, big_endian)
    IN  Emit(IF wkb_swap_bytes(variant, big_endian) THEN Reverse(dptr) ELSE dptr, variant)

double_to_wkb_buf(d, variant, big_endian) == image_to_wkb_buf(DoubleWords(d), variant, big_endian)

empty_to_wkb_size(g, variant) ==
    WKB_BYTE_SIZE + WKB_INT_SIZE
      + (IF lwgeom_wkb_needs_srid(g, variant) THEN WKB_INT_SIZE ELSE 0)
      + (IF g.type = POINTTYPE THEN WKB_DOUBLE_SIZE * FLAGS_NDIMS(g.points) ELSE WKB_INT_SIZE)

\* fault injection: empty_to_wkb_buf without its branch for POINTTYPE, so that an
\* empty Point is flagged by a zero count like every other type
empty_to_wkb_buf_point_as_count(g, variant, big_endian) ==
    Field("endian", endian_to_wkb_buf(variant))
      \o Field("type", integer_to_wkb_buf(lwgeom_wkb_type(g, variant), variant, big_endian))
      \o (IF lwgeom_wkb_needs_srid(g, variant)
          THEN Field("srid", integer_to_wkb_buf(U32(g.srid), variant, big_endian)) ELSE <<>>)
      \o Field("count", integer_to_wkb_buf(U32(0), variant, big_endian))

empty_to_wkb_buf(g, variant, big_endian) ==
    Field("endian", endian_to_wkb_buf(variant))
      \o Field("type", integer_to_wkb_buf(lwgeom_wkb_type(g, variant), variant, big_endian))
      \o (IF lwgeom_wkb_needs_srid(g, variant)
          THEN Field("srid", integer_to_wkb_buf(U32(g.srid), variant, big_endian)) ELSE <<>>)
      \o (IF g.type = POINTTYPE
          THEN Flatten([i \in 1..FLAGS_NDIMS(g.points) |->
                           Field("nan", double_nan_to_wkb_buf(variant))])
          ELSE Field("count", integer_to_wkb_buf(U32(0), variant, big_endian)))

ptarray_to_wkb_size(pa, variant) ==
    LET dims == IF BitSet(variant, WKB_ISO) \/ BitSet(variant, WKB_EXTENDED)
                THEN FLAGS_NDIMS(pa) ELSE 2
    IN  (IF ~BitSet(variant, WKB_NO_NPOINTS) THEN WKB_INT_SIZE ELSE 0)
          + npoints(pa) * dims * WKB_DOUBLE_SIZE

ptarray_to_wkb_buf(pa, variant, big_endian) ==
    LET pa_dims == FLAGS_NDIMS(pa)
        dims == IF BitSet(variant, WKB_ISO) \/ BitSet(variant, WKB_EXTENDED) THEN pa_dims ELSE 2
    IN  (IF ~BitSet(variant, WKB_NO_NPOINTS)
         THEN Field("npoints", integer_to_wkb_buf(U32(npoints(pa)), variant, big_endian))
         ELSE <<>>)
        \o (IF npoints(pa) # 0 /\ dims = pa_dims /\ ~wkb_swap_bytes(variant, big_endian)
                /\ ~BitSet(variant, WKB_HEX)
            THEN \* memcpy of npoints * dims doubles from getPoint_internal(pa, 0)
                 Field("block", Flatten([i \in 1..npoints(pa) |->
                     Flatten([j \in 1..pa_dims |-> DoubleBytes(pa.pts[i][j], big_endian)])]))
            ELSE Flatten([i \in 1..npoints(pa) |->
                     Flatten([j \in 1..dims |->
                         Field("double",
                               double_to_wkb_buf(pa.pts[i][j], variant, big_endian))])]))

\* endian byte, type word and optional SRID, with which every writer but the
\* empty one starts
WkbHeader(g, variant, big_endian) ==
    Field("endian", endian_to_wkb_buf(variant))
      \o Field("type", integer_to_wkb_buf(lwgeom_wkb_type(g, variant), variant, big_endian))
      \o (IF lwgeom_wkb_needs_srid(g, variant)
          THEN Field("srid", integer_to_wkb_buf(U32(g.srid), variant, big_endian)) ELSE <<>>)

lwpoint_to_wkb_size(pt, variant) ==
    IF BitSet(variant, WKB_EXTENDED) /\ lwgeom_is_empty(pt) THEN empty_to_wkb_size(pt, variant)
    ELSE WKB_BYTE_SIZE + WKB_INT_SIZE
           + (IF lwgeom_wkb_needs_srid(pt, variant) THEN WKB_INT_SIZE ELSE 0)
           + ptarray_to_wkb_size(pt.points, WithFlag(variant, WKB_NO_NPOINTS))

lwpoint_to_wkb_buf(pt, variant, big_endian) ==
    IF BitSet(variant, WKB_EXTENDED) /\ lwgeom_is_empty(pt)
    THEN empty_to_wkb_buf(pt, variant, big_endian)
    ELSE WkbHeader(pt, variant, big_endian)
           \o ptarray_to_wkb_buf(pt.points, WithFlag(variant, WKB_NO_NPOINTS), big_endian)

lwline_to_wkb_size(line, variant) ==
    IF BitSet(variant, WKB_EXTENDED) /\ lwgeom_is_empty(line)
    THEN empty_to_wkb_size(line, variant)
    ELSE WKB_BYTE_SIZE + WKB_INT_SIZE
           + (IF lwgeom_wkb_needs_srid(line, variant) THEN WKB_INT_SIZE ELSE 0)
           + ptarray_to_wkb_size(line.points, variant)

lwline_to_wkb_buf(line, variant, big_endian) ==
    IF BitSet(variant, WKB_EXTENDED) /\ lwgeom_is_empty(line)
    THEN empty_to_wkb_buf(line, variant, big_endian)
    ELSE WkbHeader(line, variant, big_endian)
           \o ptarray_to_wkb_buf(line.points, variant, big_endian)

\* Fault injection: a triangle sizer that forgets the ring count
lwtriangle_to_wkb_size_no_nrings(tri, variant) ==
    IF BitSet(variant, WKB_EXTENDED) /\ lwgeom_is_empty(tri)
    THEN empty_to_wkb_size(tri, variant)
    ELSE WKB_BYTE_SIZE + WKB_INT_SIZE
           + (IF lwgeom_wkb_needs_srid(tri, variant) THEN WKB_INT_SIZE ELSE 0)
           + ptarray_to_wkb_size(tri.points, variant)

lwtriangle_to_wkb_size(tri, variant) ==
    IF BitSet(variant, WKB_EXTENDED) /\ lwgeom_is_empty(tri)
    THEN empty_to_wkb_size(tri, variant)
    ELSE WKB_BYTE_SIZE + WKB_INT_SIZE + WKB_INT_SIZE
           + (IF lwgeom_wkb_needs_srid(tri, variant) THEN WKB_INT_SIZE ELSE 0)
           + ptarray_to_wkb_size(tri.points, variant)

lwtriangle_to_wkb_buf(tri, variant, big_endian) ==
    IF BitSet(variant, WKB_EXTENDED) /\ lwgeom_is_empty(tri)
    THEN empty_to_wkb_buf(tri, variant, big_endian)
    ELSE WkbHeader(tri, variant, big_endian)
           \o Field("nrings", integer_to_wkb_buf(U32(1), variant, big_endian))
           \o ptarray_to_wkb_buf(tri.points, variant, big_endian)

lwpoly_to_wkb_size(poly, variant) ==
    IF BitSet(variant, WKB_EXTENDED) /\ lwgeom_is_empty(poly)
    THEN empty_to_wkb_size(poly, variant)
    ELSE WKB_BYTE_SIZE + WKB_INT_SIZE + WKB_INT_SIZE
           + (IF lwgeom_wkb_needs_srid(poly, variant) THEN WKB_INT_SIZE ELSE 0)
           + SumSeq([i \in 1..Len(poly.rings) |-> ptarray_to_wkb_size(poly.rings[i], variant)])

lwpoly_to_wkb_buf(poly, variant, big_endian) ==
    IF BitSet(variant, WKB_EXTENDED) /\ lwgeom_is_empty(poly)
    THEN empty_to_wkb_buf(poly, variant, big_endian)
    ELSE WkbHeader(poly, variant, big_endian)
           \o Field("nrings", integer_to_wkb_buf(U32(Len(poly.rings)), variant, big_endian))
           \o Flatten([i \in 1..Len(poly.rings) |->
                  ptarray_to_wkb_buf(poly.rings[i], variant, big_endian)])

\* lwnurbscurve_generate_uniform_knots (lwgeom_nurbs.c): the clamped uniform knot
\* vector, each knot as the fraction the code divides out; <<>> is the NULL it
\* returns, with a count of 0, for a degree or point count it refuses
lwnurbscurve_generate_uniform_knots(degree, np) ==
    IF degree = 0 \/ np < degree + 1 THEN <<>>
    ELSE LET nknots == np + degree + 1
             internal_knots == nknots - 2 * (degree + 1)
         IN  [k \in 1..nknots |->
                 IF k <= degree + 1 THEN Rat(0, 1)
                 ELSE IF k > nknots - degree - 1 THEN Rat(1, 1)
                 ELSE Rat(k - degree - 1, internal_knots + 1)]

\* lwnurbscurve_generate_uniform_knots of src/unnamed/part_001: no degree or point
\* count is refused; the start clamp is written first, the end clamp over it, the
\* interior knots last
lwnurbscurve_generate_uniform_knots_part_001(degree, np) ==
    LET nknots == np + degree + 1
        internal_knots == nknots - 2 * (degree + 1)
    IN  [k \in 1..nknots |->
            IF nknots > 2 * (degree + 1) /\ k > degree + 1 /\ k <= degree + 1 + internal_knots
            THEN Rat(k - degree - 1, internal_knots + 1)
            ELSE IF k > nknots - degree - 1 THEN Rat(1, 1)
            ELSE Rat(0, 1)]

\* lwnurbscurve_get_knots_for_wkb (lwgeom_nurbs.c): a copy of the stored knots, or
\* generated ones; each knot as a fraction
lwnurbscurve_get_knots_for_wkb(curve) ==
    IF curve.points.null THEN <<>>
    ELSE IF curve.knots # <<>> /\ curve.nknots > 0
    THEN [k \in 1..curve.nknots |-> Rat(curve.knots[k], 1)]
    ELSE lwnurbscurve_generate_uniform_knots(curve.degree, npoints(curve.points))

\* the words of the double a knot is
KnotWords(q) == FractionWords(q[1], q[2])

\* whether control point i (from 1) is written with its weight
HasWeight(curve, i) ==
    curve.weights # <<>> /\ i <= curve.nweights /\ curve.weights[i] # 1

lwnurbscurve_to_wkb_size(curve, variant) ==
    LET np == IF curve.points.null THEN 0 ELSE npoints(curve.points)
        dims == IF curve.points.null THEN 2 ELSE FLAGS_NDIMS(curve.points)
    IN  WKB_BYTE_SIZE + WKB_INT_SIZE
          + (IF lwgeom_wkb_needs_srid(curve, variant) THEN WKB_INT_SIZE ELSE 0)
          + WKB_INT_SIZE + WKB_INT_SIZE
          + SumSeq([i \in 1..np |->
                WKB_BYTE_SIZE + dims * WKB_DOUBLE_SIZE + WKB_BYTE_SIZE
                  + (IF HasWeight(curve, i) THEN WKB_DOUBLE_SIZE ELSE 0)])
          + WKB_INT_SIZE
          + WKB_DOUBLE_SIZE * Len(lwnurbscurve_get_knots_for_wkb(curve))

lwnurbscurve_to_wkb_buf(curve, variant, big_endian) ==
    LET np == IF curve.points.null THEN 0 ELSE npoints(curve.points)
        dims == IF curve.points.null THEN 2 ELSE FLAGS_NDIMS(curve.points)
        knots == lwnurbscurve_get_knots_for_wkb(curve)
    IN  WkbHeader(curve, variant, big_endian)
          \o Field("degree", integer_to_wkb_buf(U32(curve.degree), variant, big_endian))
          \o Field("npoints", integer_to_wkb_buf(U32(np), variant, big_endian))
          \o Flatten([i \in 1..np |->
                 Field("endian", endian_to_wkb_buf(variant))
                   \o Flatten([d \in 1..dims |->
                          Field("double", double_to_wkb_buf(curve.points.pts[i][d], variant,
                                                            big_endian))])
                   \o Field("has_weight", byte_to_wkb_buf(B(HasWeight(curve, i)), variant))
                   \o (IF HasWeight(curve, i)
                       THEN Field("weight",
                                  double_to_wkb_buf(curve.weights[i], variant, big_endian))
                       ELSE <<>>)])
          \o Field("nknots", integer_to_wkb_buf(U32(Len(knots)), variant, big_endian))
          \o Flatten([i \in 1..Len(knots) |->
                 Field("knot", image_to_wkb_buf(KnotWords(knots[i]), variant, big_endian))])

\* the geometry types the switches of lwgeom_to_wkb_size and lwgeom_to_wkb_buf list
WkbCollectionTypes ==
    {MULTIPOINTTYPE, MULTILINETYPE, MULTIPOLYGONTYPE, COMPOUNDTYPE, CURVEPOLYTYPE,
     MULTICURVETYPE, MULTISURFACETYPE, COLLECTIONTYPE, POLYHEDRALSURFACETYPE, TINTYPE}

RECURSIVE lwgeom_to_wkb_size(_, _)
\* lwgeom_to_wkb_size, with lwcollection_to_wkb_size; 0 for a NULL geometry and
\* for a type the switch does not list
lwgeom_to_wkb_size(g, variant) ==
    IF g = NullGeom THEN 0
    ELSE IF ~BitSet(variant, WKB_EXTENDED) /\ lwgeom_is_empty(g) THEN empty_to_wkb_size(g, variant)
    ELSE CASE g.type = POINTTYPE -> lwpoint_to_wkb_size(g, variant)
           [] g.type \in {CIRCSTRINGTYPE, LINETYPE} -> lwline_to_wkb_size(g, variant)
           [] g.type = POLYGONTYPE -> lwpoly_to_wkb_size(g, variant)
           [] g.type = TRIANGLETYPE -> lwtriangle_to_wkb_size(g, variant)
           [] g.type \in WkbCollectionTypes ->
                WKB_BYTE_SIZE + WKB_INT_SIZE + WKB_INT_SIZE
                  + (IF lwgeom_wkb_needs_srid(g, variant) THEN WKB_INT_SIZE ELSE 0)
                  + SumSeq([i \in 1..Len(g.geoms) |->
                        lwgeom_to_wkb_size(g.geoms[i], WithFlag(variant, WKB_NO_SRID))])
           [] g.type = NURBSCURVETYPE -> lwnurbscurve_to_wkb_size(g, variant)
           [] OTHER -> 0

RECURSIVE lwgeom_to_wkb_size_errors(_, _)
\* the lwerror reports of lwgeom_to_wkb_size, in order
lwgeom_to_wkb_size_errors(g, variant) ==
    IF g = NullGeom THEN <<Err("Cannot convert NULL into WKB.", 0, 0)>>
    ELSE IF ~BitSet(variant, WKB_EXTENDED) /\ lwgeom_is_empty(g) THEN <<>>
    ELSE IF g.type \in WkbCollectionTypes
    THEN Flatten([i \in 1..Len(g.geoms) |->
             lwgeom_to_wkb_size_errors(g.geoms[i], WithFlag(variant, WKB_NO_SRID))])
    ELSE IF g.type \in {POINTTYPE, CIRCSTRINGTYPE, LINETYPE, POLYGONTYPE, TRIANGLETYPE,
                        NURBSCURVETYPE}
    THEN <<>>
    ELSE <<Err("Unsupported geometry type", g.type, 0)>>

\* What a writer leaves behind: the fields it stored in the buffer, the errors it
\* reported, whether the write head it returns derives from the 0 the default
\* branch of lwgeom_to_wkb_buf returns, and whether anything was stored through
\* such a head (wild: outside the buffer).
WOut(fields, errs, null, wild) ==
    [fields |-> fields, errs |-> errs, null |-> null, wild |-> wild]

\* writer a, then writer b from the head a returned
WThen(a, b) ==
    IF a.null
    THEN WOut(a.fields, a.errs \o b.errs, TRUE, a.wild \/ b.wild \/ b.fields # <<>>)
    ELSE WOut(a.fields \o b.fields, a.errs \o b.errs, b.null, b.wild)

RECURSIVE WAll(_)
\* the writers of a sequence, one after the other
WAll(ws) ==
    IF ws = <<>> THEN WOut(<<>>, <<>>, FALSE, FALSE)
    ELSE WThen(Head(ws), WAll(Tail(ws)))

RECURSIVE lwgeom_to_wkb_buf(_, _, _)
\* lwgeom_to_wkb_buf, with lwcollection_to_wkb_buf
lwgeom_to_wkb_buf(g, variant, big_endian) ==
    IF lwgeom_is_empty(g) /\ ~BitSet(variant, WKB_EXTENDED)
    THEN WOut(empty_to_wkb_buf(g, variant, big_endian), lwgeom_wkb_type_errors(g), FALSE, FALSE)
    ELSE CASE g.type = POINTTYPE ->
                WOut(lwpoint_to_wkb_buf(g, variant, big_endian), <<>>, FALSE, FALSE)
           [] g.type \in {CIRCSTRINGTYPE, LINETYPE} ->
                WOut(lwline_to_wkb_buf(g, variant, big_endian), <<>>, FALSE, FALSE)
           [] g.type = POLYGONTYPE ->
                WOut(lwpoly_to_wkb_buf(g, variant, big_endian), <<>>, FALSE, FALSE)
           [] g.type = TRIANGLETYPE ->
                WOut(lwtriangle_to_wkb_buf(g, variant, big_endian), <<>>, FALSE, FALSE)
           [] g.type \in WkbCollectionTypes ->
                WThen(WOut(WkbHeader(g, variant, big_endian)
                             \o Field("ngeoms", integer_to_wkb_buf(U32(Len(g.geoms)), variant,
                                                                   big_endian)),
                           <<>>, FALSE, FALSE),
                      WAll([i \in 1..Len(g.geoms) |->
                          lwgeom_to_wkb_buf(g.geoms[i], WithFlag(variant, WKB_NO_SRID),
                                            big_endian)]))
           [] g.type = NURBSCURVETYPE ->
                WOut(lwnurbscurve_to_wkb_buf(g, variant, big_endian), <<>>, FALSE, FALSE)
           [] OTHER -> WOut(<<>>, <<Err("Unsupported geometry type", g.type, 0)>>, TRUE, FALSE)

\* lwgeom_to_wkb_write_buf: the native byte order when the variant names none or both
lwgeom_to_wkb_write_buf(g, variant, big_endian) ==
    LET both == BitSet(variant, WKB_NDR) /\ BitSet(variant, WKB_XDR)
        none == ~BitSet(variant, WKB_NDR) /\ ~BitSet(variant, WKB_XDR)
        v == IF none \/ both
             THEN WithFlag(variant, IF big_endian THEN WKB_XDR ELSE WKB_NDR)
             ELSE variant
    IN  lwgeom_to_wkb_buf(g, v, big_endian)

LWVARHDRSZ == 4

\* one run of the sizer and of the writer over a geometry
WkbRun(g, variant, big_endian) ==
    [size |-> lwgeom_to_wkb_size(g, variant),
     size_errs |-> lwgeom_to_wkb_size_errors(g, variant),
     w |-> LET out == lwgeom_to_wkb_write_buf(g, variant, big_endian)
           IN  [fields |-> out.fields, bytes |-> FieldBytes(out.fields), errs |-> out.errs,
                null |-> out.null, wild |-> out.wild]]

\* The outcome of lwgeom_to_wkb_buffer (op "buffer") or lwgeom_to_wkb_varlena
\* (op "varlena") whose run is r.  A head that derives from 0 makes written_size
\* the difference of unrelated pointers; the terminator of the hex buffer is then
\* stored outside the buffer and the size check fails.
WkbOutcome(op, r, variant, big_endian, handler) ==
    LET hex == BitSet(variant, WKB_HEX)
        varlena == op = "varlena"
        b_size == IF hex THEN (IF varlena THEN 2 * r.size ELSE 2 * r.size + 1) ELSE r.size
        allocated == IF varlena THEN b_size + LWVARHDRSZ ELSE b_size
        terminated == hex /\ ~varlena
        bytes == IF terminated /\ ~r.w.null THEN r.w.bytes \o <<0>> ELSE r.w.bytes
        written_size == Len(r.w.bytes) + (IF terminated /\ ~r.w.null THEN 1 ELSE 0)
        base == [op |-> op, variant |-> variant, big_endian |-> big_endian, size |-> r.size,
                 allocated |-> 0, written |-> 0, bytes |-> <<>>, fields |-> <<>>, varsize |-> 0,
                 errors |-> <<>>, handed |-> FALSE, freed |-> FALSE, oob |-> FALSE,
                 status |-> "error"]
        mismatch == Err("Output WKB is not the same size as the allocated buffer", 0, 0)
    IN  IF r.size_errs # <<>> /\ handler = "noreturn"
        THEN [base EXCEPT !.errors = <<r.size_errs[1]>>]
        ELSE IF r.w.errs # <<>> /\ handler = "noreturn"
        THEN [base EXCEPT !.errors = r.size_errs \o <<r.w.errs[1]>>, !.allocated = allocated,
                          !.bytes = r.w.bytes, !.fields = r.w.fields,
                          !.written = Len(r.w.bytes)]
        ELSE IF r.w.null \/ written_size # b_size
        THEN [base EXCEPT !.errors = r.size_errs \o r.w.errs \o <<mismatch>>,
                          !.allocated = allocated, !.bytes = bytes, !.fields = r.w.fields,
                          !.written = written_size,
                          !.oob = r.w.wild \/ (terminated /\ r.w.null) \/ written_size > b_size,
                          !.freed = handler = "returns"]
        ELSE [base EXCEPT !.errors = r.size_errs \o r.w.errs, !.allocated = allocated,
                          !.bytes = bytes, !.fields = r.w.fields, !.written = written_size,
                          !.varsize = IF varlena THEN written_size + LWVARHDRSZ ELSE 0,
                          !.handed = TRUE, !.status = "returned"]
(***************************************************************************)
(* The state machine.  A caller holds a geometry, encodes it, and applies  *)
(* the decoder and the probes to the record it was handed.                 *)
(*                                                                         *)
(* lwerror calls the handler the process installed: the PostgreSQL handler *)
(* and the default handler do not return to the codec, a handler that      *)
(* records the message (as the unit tests install) does.  assert() is      *)
(* compiled out under NDEBUG.  Both are choices of the build.              *)
(***************************************************************************)
Handlers == {"returns", "noreturn"}

NoSer == [status |-> "none"]
NoDec == [status |-> "none"]
NoProbe == [op |-> "none"]
NoWkb == [status |-> "none"]

\* G2FLAGS_NDIMS_BOX (gserialized2.h): the dimensions of the box of a record
G2FLAGS_NDIMS_BOX(gflags) == IF BitSet(gflags, G2FLAG_GEODETIC) THEN 3 ELSE G2FLAGS_NDIMS(gflags)

\* the record as the 4-byte cells of its memory: the size, the SRID bytes with the
\* flag byte, then the data area
RecordCells(g) == <<g.size, <<g.srid, g.gflags>>>> \o g.data

\* a read of cell k of a record; a read past what was written finds 0
CellAt(cells, k) == IF k <= Len(cells) THEN cells[k] ELSE 0

\* gserialized2_drop_gbox: the allocation it returns, as 4-byte cells, with the
\* offsets at which its last read of the input and its last write to the output
\* end.  g_out_size is a size_t: LWSIZE_GET(g->size) - box_size below zero wraps
\* around (wrapped) and nothing can be said of what follows.  Cells of the
\* allocation are those written inside it; a copy that runs past the input or
\* the allocation shows in read_end and write_end.
gserialized2_drop_gbox(g) ==
    LET box_size == 2 * G2FLAGS_NDIMS_BOX(g.gflags) * 4
        g_out_size == g.size - box_size
        head == IF BitSet(g.gflags, G2FLAG_EXTENDED) THEN 16 ELSE 8
        cells == RecordCells(g)
        inside(n) == IF n < head THEN head ELSE IF n > g_out_size THEN g_out_size ELSE n
    IN  IF g_out_size < 0
        THEN [wrapped |-> TRUE, allocated |-> 0, read_end |-> 0, write_end |-> 0, cells |-> <<>>]
        ELSE IF BitSet(g.gflags, G2FLAG_BBOX)
        THEN [wrapped |-> FALSE, allocated |-> g_out_size,
              read_end |-> head + box_size + (g_out_size - 8),
              write_end |-> head + (g_out_size - 8),
              cells |-> <<g_out_size, <<g.srid, g.gflags - G2FLAG_BBOX>>>>
                          \o [k \in 1..((head - 8) \div 4) |-> CellAt(cells, 2 + k)]
                          \o [k \in 1..((inside(head + (g_out_size - 8)) - head) \div 4) |->
                                 CellAt(cells, ((head + box_size) \div 4) + k)]]
        ELSE [wrapped |-> FALSE, allocated |-> g_out_size,
              read_end |-> g_out_size, write_end |-> g_out_size,
              cells |-> [k \in 1..(g_out_size \div 4) |-> CellAt(cells, k)]]

Init ==
    /\ geom \in GeomSet
    /\ pc = "geom"
    /\ ser = NoSer
    /\ dec = NoDec
    /\ probe = NoProbe
    /\ wkb = NoWkb

\* the outcome of a call of gserialized2_from_lwgeom whose encoding run is r
SerializeOutcome(r, handler, ndebug) ==
    LET size_errs == gserialized2_from_any_size_errors(r.geom)
        done(status, errors, allocated, return_size, handed, g) ==
            [status |-> status, errors |-> errors, allocated |-> allocated,
             expected_size |-> r.expected_size, return_size |-> return_size,
             handed |-> handed, freed |-> FALSE, g |-> g]
    IN  IF r.errs # <<>> /\ handler = "noreturn"
        THEN \* the first report ends the call; the buffer, if it was allocated
             \* by then, is neither freed nor returned
             done("error", <<r.errs[1]>>, IF size_errs # <<>> THEN 0 ELSE r.expected_size,
                  0, FALSE, NoSer)
        ELSE IF r.expected_size # r.return_size /\ ~ndebug
        THEN \* assert(expected_size == return_size) aborts the process
             done("abort", r.errs, r.expected_size, r.return_size, FALSE, NoSer)
        ELSE done("returned", r.errs, r.expected_size, r.return_size, TRUE, r.g)

\* gserialized2_from_lwgeom
Serialize ==
    /\ pc = "geom"
    /\ \E needs_bbox \in BOOLEAN :
        \E r \in {gserialized2_from_lwgeom(geom, needs_bbox)} :
            /\ geom' = r.geom
            /\ \E handler \in Handlers, ndebug \in BOOLEAN :
                    ser' = SerializeOutcome(r, handler, ndebug)
    /\ pc' = "serialized"
    /\ UNCHANGED <<dec, probe, wkb>>


\* the records the caller goes on to read: those of an encoding that reported nothing
Readable == pc = "serialized" /\ ser.handed /\ ser.errors = <<>>

\* gserialized2_is_empty
IsEmpty ==
    /\ Readable
    /\ probe' = [op |-> "is_empty", isempty |-> gserialized2_is_empty(ser.g)]
    /\ pc' = "probed"
    /\ UNCHANGED <<geom, ser, dec, wkb>>

\* gserialized2_peek_gbox_p
PeekGbox ==
    /\ Readable
    /\ probe' = [op |-> "peek_gbox", gbox |-> gserialized2_peek_gbox_p(ser.g)]
    /\ pc' = "probed"
    /\ UNCHANGED <<geom, ser, dec, wkb>>

\* gserialized2_get_gbox_p
GetGbox ==
    /\ Readable
    /\ \E r \in {lwgeom_from_gserialized2(ser.g)}, handler \in Handlers :
        IF IsBox(gserialized2_read_gbox_p(ser.g)) \/ IsBox(gserialized2_peek_gbox_p(ser.g))
           \/ r.errs = <<>>
        THEN probe' = [op |-> "get_gbox", status |-> "returned", errors |-> <<>>,
                       gbox |-> gserialized2_get_gbox_p(ser.g)]
        ELSE IF handler = "noreturn"
        THEN probe' = [op |-> "get_gbox", status |-> "error", errors |-> <<r.errs[1]>>,
                       gbox |-> NoBox]
        ELSE IF r.lwgeom = NullGeom
        THEN probe' = [op |-> "get_gbox", status |-> "crash",
                       errors |-> r.errs \o <<Err("unable create geometry", 0, 0)>>,
                       gbox |-> NoBox]
        ELSE probe' = [op |-> "get_gbox", status |-> "returned", errors |-> r.errs,
                       gbox |-> gserialized2_get_gbox_p(ser.g)]
    /\ pc' = "probed"
    /\ UNCHANGED <<geom, ser, dec, wkb>>

\* lwgeom_from_gserialized2, applied to the record the encoder handed over
Deserialize ==
    /\ Readable
    /\ \E r \in {lwgeom_from_gserialized2(ser.g)}, handler \in Handlers, needs_bbox \in BOOLEAN :
        IF r.errs # <<>> /\ handler = "noreturn"
        THEN \* the first report ends the call
             dec' = [status |-> "error", errors |-> <<r.errs[1]>>, lwgeom |-> NullGeom]
        ELSE IF r.lwgeom = NullGeom
        THEN \* the report is followed by stores through the NULL pointer
             dec' = [status |-> "crash",
                     errors |-> r.errs \o <<Err("unable create geometry", 0, 0)>>,
                     lwgeom |-> NullGeom]
        ELSE dec' = [status |-> "returned", errors |-> r.errs,
                     lwgeom |-> [r.lwgeom EXCEPT
                        !.type = gserialized2_get_type(ser.g),
                        !.flags = gserialized2_get_lwflags(ser.g),
                        !.bbox = \/ IsBox(gserialized2_read_gbox_p(ser.g))
                                 \/ needs_bbox /\ IsBox(lwgeom_calculate_gbox(r.lwgeom))]]
    /\ pc' = "deserialized"
    /\ UNCHANGED <<geom, ser, probe, wkb>>

\* SRID_MAXIMUM (liblwgeom.h): the largest SRID clamp_srid lets through
SRID_MAXIMUM == 999999

\* the SRIDs handed to gserialized2_set_srid: unknown, and known ones from the
\* least to the largest, on both sides of each byte of the header
SridValues == {SRID_UNKNOWN, 1, 255, 256, SRID_WGS84, 65535, 65536, SRID_MAXIMUM}

\* gserialized2_set_srid on the record, then gserialized2_get_srid: the function
\* stores into g->srid[0..2] and nowhere else
SetSrid ==
    /\ Readable
    /\ \E srid \in SridValues :
          \E g \in {[ser.g EXCEPT !.srid = gserialized2_set_srid(srid)]} :
             probe' = [op |-> "set_srid", srid |-> srid, g |-> g,
                       got |-> gserialized2_get_srid(g)]
    /\ pc' = "probed"
    /\ UNCHANGED <<geom, ser, dec, wkb>>

\* gserialized2_drop_gbox
DropGbox ==
    /\ Readable
    /\ probe' = [op |-> "drop_gbox", result |-> gserialized2_drop_gbox(ser.g)]
    /\ pc' = "probed"
    /\ UNCHANGED <<geom, ser, dec, wkb>>

Next ==
    \/ Serialize
    \/ Deserialize
    \/ IsEmpty
    \/ PeekGbox
    \/ GetGbox
    \/ DropGbox
    \/ SetSrid

Spec == Init /\ [][Next]_vars

(***************************************************************************)
(* Properties of the GS2 codec.                                            *)
(***************************************************************************)
RECURSIVE SameGeometry(_, _)
\* the same type, Z/M flags, nesting, counts and ordinates, and for a NurbsCurve
\* the same degree, weights and knots
SameGeometry(a, b) ==
    /\ a.type = b.type
    /\ a.flags.z = b.flags.z /\ a.flags.m = b.flags.m
    /\ a.points.pts = b.points.pts
    /\ Len(a.rings) = Len(b.rings)
    /\ \A i \in 1..Len(a.rings) : a.rings[i].pts = b.rings[i].pts
    /\ Len(a.geoms) = Len(b.geoms)
    /\ \A i \in 1..Len(a.geoms) : SameGeometry(a.geoms[i], b.geoms[i])
    /\ a.type = NURBSCURVETYPE =>
          /\ a.degree = b.degree
          /\ a.nweights = b.nweights /\ a.weights = b.weights
          /\ a.nknots = b.nknots /\ a.knots = b.knots

IsNurbsWithArrays(g) == g.type = NURBSCURVETYPE /\ g.nweights > 0 /\ g.nknots > 0

\* C1: for every valid geometry G, decoding the encoding of G returns a geometry of
\* the same type, Z/M flags, nesting structure, child, ring and point counts and
\* coordinate values, and for a NurbsCurve the same degree, weights and knots.
C1_RoundTrip ==
    (pc = "deserialized" /\ Valid(geom)) =>
        (dec.status = "returned" /\ SameGeometry(geom, dec.lwgeom))

\* a collection holding a NurbsCurve with weights and knots next to another child
\* has been encoded and decoded
C1_Witness ==
    /\ pc = "deserialized" /\ Valid(geom) /\ dec.status = "returned"
    /\ geom.type = COLLECTIONTYPE /\ Len(geom.geoms) = 2
    /\ IsNurbsWithArrays(geom.geoms[1]) /\ npoints(geom.geoms[1].points) = MaxPoints
    /\ geom.geoms[2].type = MULTIPOINTTYPE

\* C2: for every geometry the encoder accepts (it reports no error), the bytes the
\* encoder writes are as many as gserialized2_from_lwgeom_size predicts, and that
\* number is the size stored in the record.
C2_SizeExact ==
    (pc = "serialized" /\ ser.status \in {"returned", "abort"} /\ ser.errors = <<>>) =>
        /\ ser.return_size = ser.expected_size
        /\ ser.handed => ser.g.size = ser.return_size

RECURSIVE AllSrid(_, _)
\* the geometry and all it contains carry this SRID
AllSrid(g, srid) ==
    g = NullGeom \/ (g.srid = srid /\ \A i \in 1..Len(g.geoms) : AllSrid(g.geoms[i], srid))

\* C3: the decoder gives the root and every sub-geometry, at every depth, the SRID
\* of the record's header, for every geometry type, NurbsCurve included.
C3_SridFromHeader ==
    (pc = "deserialized" /\ dec.status = "returned") =>
        AllSrid(dec.lwgeom, gserialized2_get_srid(ser.g))

\* C4: gserialized2_is_empty of the encoding of G is true exactly when G contains
\* no point, also for collections holding NurbsCurves next to other children.
C4_IsEmptyExact ==
    (pc = "probed" /\ probe.op = "is_empty" /\ Valid(geom)) =>
        (probe.isempty <=> lwgeom_is_empty(geom))

\* the ordinates of a box, in the order of the struct
BoxOrdinates(b) == <<b.xmin, b.xmax, b.ymin, b.ymax, b.zmin, b.zmax, b.mmin, b.mmax>>

\* the rounded min and max of every ordinate the geometry carries, over all its points
MinMaxOfPoints(g) ==
    LET P == AllPoints(g)
        lo(S) == next_float_down(SetMin(S))
        hi(S) == next_float_up(SetMax(S))
    IN  <<lo({p.x : p \in P}), hi({p.x : p \in P}), lo({p.y : p \in P}), hi({p.y : p \in P}),
          IF g.flags.z THEN lo({p.z : p \in P}) ELSE 0, IF g.flags.z THEN hi({p.z : p \in P}) ELSE 0,
          IF g.flags.m THEN lo({p.m : p \in P}) ELSE 0, IF g.flags.m THEN hi({p.m : p \in P}) ELSE 0>>

\* C6: whenever gserialized2_peek_gbox_p succeeds on the record of a geometry, the box
\* has in every dimension the geometry carries the min and max of that ordinate over
\* all points of the geometry: the box a full decode followed by a box computation
\* and the same rounding gives.
C6_PeekAgrees ==
    (pc = "probed" /\ probe.op = "peek_gbox" /\ IsBox(probe.gbox) /\ Valid(geom)) =>
        /\ BoxOrdinates(probe.gbox) = MinMaxOfPoints(geom)
        /\ BoxOrdinates(probe.gbox) = BoxOrdinates(DecodeAndCalculateBox(ser.g))
        /\ probe.gbox.flags.z = geom.flags.z /\ probe.gbox.flags.m = geom.flags.m

\* an XYZM two-point line whose second point is the larger in x and the smaller in
\* y has been peeked
C6_Witness ==
    /\ pc = "probed" /\ probe.op = "peek_gbox" /\ IsBox(probe.gbox) /\ Valid(geom)
    /\ geom.type = LINETYPE /\ geom.flags.z /\ geom.flags.m
    /\ geom.points.pts[1][1] < geom.points.pts[2][1]
    /\ geom.points.pts[1][2] > geom.points.pts[2][2]

\* the shapes the peek handles
Peekable(g) ==
    \/ g.type = POINTTYPE /\ npoints(g.points) > 0
    \/ g.type = LINETYPE /\ npoints(g.points) = 2
    \/ /\ g.type = MULTIPOINTTYPE /\ Len(g.geoms) = 1
       /\ g.geoms[1].type = POINTTYPE /\ npoints(g.geoms[1].points) > 0
    \/ /\ g.type = MULTILINETYPE /\ Len(g.geoms) = 1
       /\ g.geoms[1].type = LINETYPE /\ npoints(g.geoms[1].points) = 2

RECURSIVE HasInadmissibleChild(_)
\* some collection of the geometry, at any depth, holds a child it does not admit
HasInadmissibleChild(g) ==
    \E i \in 1..Len(g.geoms) :
        \/ lwtype_is_collection(g.type) /\ ~lwcollection_allows_subtype(g.type, g.geoms[i].type)
        \/ HasInadmissibleChild(g.geoms[i])

RECURSIVE InadmissiblePairs(_)
\* the <<child type, parent type>> pairs of the geometry that are not admitted
InadmissiblePairs(g) ==
    UNION {InadmissiblePairs(g.geoms[i]) : i \in 1..Len(g.geoms)}
      \cup {<<g.geoms[i].type, g.type>> : i \in {j \in 1..Len(g.geoms) :
                ~lwcollection_allows_subtype(g.type, g.geoms[j].type)}}

\* C8: decoding a payload in which a collection, at any depth, holds a child it does
\* not admit reports an error naming the child and parent types and returns no
\* geometry tree: neither a partial tree nor a tree with a missing child.
C8_InadmissibleRefused ==
    (pc = "deserialized" /\ HasInadmissibleChild(geom)) =>
        /\ \E k \in 1..Len(dec.errors) :
              /\ dec.errors[k].msg = "Invalid subtype for collection type"
              /\ <<dec.errors[k].a, dec.errors[k].b>> \in InadmissiblePairs(geom)
        /\ dec.status # "returned"

RECURSIVE HasDimMismatch(_)
\* some geometry of the tree has Z/M flags that differ from a coordinate block it
\* holds or from a child's
HasDimMismatch(g) ==
    \/ /\ g.type \in {POINTTYPE, LINETYPE, CIRCSTRINGTYPE, TRIANGLETYPE, NURBSCURVETYPE}
       /\ ~g.points.null
       /\ FLAGS_GET_ZM(g.flags) # FLAGS_GET_ZM(g.points)
    \/ \E i \in 1..Len(g.rings) : FLAGS_GET_ZM(g.flags) # FLAGS_GET_ZM(g.rings[i])
    \/ \E i \in 1..Len(g.geoms) :
          FLAGS_GET_ZM(g.flags) # FLAGS_GET_ZM(g.geoms[i].flags) \/ HasDimMismatch(g.geoms[i])

DimensionMessages ==
    {"Dimensions mismatch in lwpoint", "Dimensions mismatch in lwline",
     "Dimensions mismatch in lwpoly", "Dimensions mismatch in lwtriangle",
     "Dimensions mismatch in lwcircstring", "Dimensions mismatch in lwnurbscurve",
     "Dimensions mismatch in lwcollection"}

\* C9: the encoder reports a dimension mismatch whenever the Z or the M flag of a
\* geometry differs from that of a coordinate block it holds (Point, LineString,
\* CircularString, Triangle, Polygon ring, NurbsCurve) or from a collection child's.
C9_MismatchReported ==
    (pc = "serialized" /\ HasDimMismatch(geom)) =>
        \E k \in 1..Len(ser.errors) : ser.errors[k].msg \in DimensionMessages

\* C10: when a check fails while encoding (an unknown type at any depth, a dimension
\* mismatch, a written size other than the predicted one) the encoder reports the
\* error, frees the buffer and hands none to the caller; and it never writes outside
\* the buffer it allocated.
C10_FailedEncodeFreesBuffer ==
    pc = "serialized" =>
        /\ ser.return_size <= ser.allocated
        /\ (\/ ser.errors # <<>>
            \/ HasDimMismatch(geom)
            \/ ser.return_size # ser.expected_size /\ ser.status # "error")
           => (ser.errors # <<>> /\ ~ser.handed /\ (ser.allocated > 0 => ser.freed))


(***************************************************************************)
(* The WKB writer as a state machine of its own: a caller holds a geometry *)
(* and asks for its WKB in a variant, as a buffer or as a varlena.         *)
(***************************************************************************)
WkbDialects == {WKB_SFSQL, WKB_ISO, WKB_EXTENDED}

\* the variants asked for: a dialect, none, one or both of the byte orders, hex
\* or binary, and WKB_NO_SRID with the one dialect that writes an SRID
WkbVariants ==
    {dialect + endian + hex + nosrid :
        dialect \in WkbDialects, endian \in {0, WKB_NDR, WKB_XDR, WKB_NDR + WKB_XDR},
        hex \in {0, WKB_HEX}, nosrid \in {0}}
      \cup {WKB_EXTENDED + WKB_NO_SRID + endian + hex :
               endian \in {0, WKB_NDR, WKB_XDR, WKB_NDR + WKB_XDR}, hex \in {0, WKB_HEX}}

\* geometries of a type the writer does not list, alone and as a child
UnsupportedWkbGeoms ==
    LET pt == Leaf(POINTTYPE, <<FALSE, FALSE>>, <<1>>)
        bad == {Leaf(t, <<FALSE, FALSE>>, <<1>>) : t \in UnknownTypes}
    IN  bad \cup {Coll(COLLECTIONTYPE, <<FALSE, FALSE>>, <<b>>) : b \in bad}
            \cup {Coll(COLLECTIONTYPE, <<FALSE, FALSE>>, <<b, pt>>) : b \in bad}

\* the geometries handed to the WKB writer
WkbGeomSet ==
    LET xyzm == <<TRUE, TRUE>>
        leaves(d) == Points(d) \cup Lines(d) \cup CircStrings(d) \cup Triangles(d)
                       \cup Polygons(d) \cup NurbsCurves(d)
        many(type) == IF type = COLLECTIONTYPE
                      THEN {k \in Kids(type, xyzm) :
                               k.type = NURBSCURVETYPE \/ lwgeom_is_empty(k)}
                      ELSE Kids(type, xyzm)
        long == UNION {{Coll(type, xyzm, geoms) : geoms \in SeqsUpTo(many(type), MaxGeoms)} :
                       type \in {MULTIPOINTTYPE, COLLECTIONTYPE}}
        colls == UNION {{Coll(type, xyzm, <<k>>) : k \in Kids(type, xyzm)} :
                        type \in CollectionTypes}
                   \cup NestedCollections(xyzm)
        withsrid == leaves(xyzm) \cup colls
    IN  UNION {leaves(d) : d \in Dims} \cup long \cup colls
          \cup {lwgeom_set_srid(g, SRID_WGS84) : g \in withsrid}
          \cup UnsupportedWkbGeoms

\* the geometry has only types the writer lists
RECURSIVE WkbSupported(_)
WkbSupported(g) ==
    /\ WkbBaseType(g.type) # 0
    /\ \A i \in 1..Len(g.geoms) : WkbSupported(g.geoms[i])

WkbInit ==
    /\ geom \in WkbGeomSet
    /\ pc = "geom"
    /\ ser = NoSer
    /\ dec = NoDec
    /\ probe = NoProbe
    /\ wkb = NoWkb

\* lwgeom_to_wkb_buffer(geom, variant)
ToWkbBuffer ==
    /\ pc = "geom"
    /\ \E variant \in WkbVariants, big_endian \in BOOLEAN :
          \E r \in {WkbRun(geom, variant, big_endian)} :
             \E handler \in Handlers :
                wkb' = WkbOutcome("buffer", r, variant, big_endian, handler)
    /\ pc' = "wkb"
    /\ UNCHANGED <<geom, ser, dec, probe>>

\* lwgeom_to_wkb_varlena(geom, variant)
ToWkbVarlena ==
    /\ pc = "geom"
    /\ \E variant \in WkbVariants, big_endian \in BOOLEAN :
          \E r \in {WkbRun(geom, variant, big_endian)} :
             \E handler \in Handlers :
                wkb' = WkbOutcome("varlena", r, variant, big_endian, handler)
    /\ pc' = "wkb"
    /\ UNCHANGED <<geom, ser, dec, probe>>

WkbNext == ToWkbBuffer \/ ToWkbVarlena

WkbSpec == WkbInit /\ [][WkbNext]_vars

\* C5: for every geometry of supported types and every variant, the writer stores
\* exactly lwgeom_to_wkb_size bytes in binary output, twice as many in a hex
\* varlena, and twice as many plus the terminator in a hex buffer; the entry
\* point's own size check passes and the buffer is handed to the caller.
C5_WkbSizeExact ==
    (pc = "wkb" /\ WkbSupported(geom)) =>
        /\ wkb.status = "returned"
        /\ wkb.size = lwgeom_to_wkb_size(geom, wkb.variant)
        /\ Len(wkb.bytes) = wkb.written
        /\ wkb.written = (IF ~BitSet(wkb.variant, WKB_HEX) THEN wkb.size
                          ELSE IF wkb.op = "varlena" THEN 2 * wkb.size
                          ELSE 2 * wkb.size + 1)
        /\ wkb.op = "varlena" => wkb.varsize = wkb.written + LWVARHDRSZ

\* a hex buffer of a collection that holds a weighted NurbsCurve was written
C5_Witness ==
    /\ pc = "wkb" /\ wkb.status = "returned" /\ wkb.op = "buffer"
    /\ BitSet(wkb.variant, WKB_HEX) /\ BitSet(wkb.variant, WKB_EXTENDED)
    /\ geom.type = COLLECTIONTYPE /\ geom.srid # SRID_UNKNOWN
    /\ \E i \in 1..Len(geom.geoms) :
          geom.geoms[i].type = NURBSCURVETYPE /\ geom.geoms[i].weights # <<>>
    /\ wkb.written = 2 * wkb.size + 1

(***************************************************************************)
(* Reading the output back.  The properties below read the fields of the   *)
(* output the way a reader of WKB does: a pair of hex digits is one byte,  *)
(* and the endian marker that opens the output tells the order of the      *)
(* bytes of every integer and double.                                      *)
(***************************************************************************)
HexDigits == (48..57) \cup (65..70)

HexVal(c) == IF c >= 65 THEN c - 55 ELSE c - 48

Unhex(s) == [k \in 1..(Len(s) \div 2) |-> 16 * HexVal(s[2 * k - 1]) + HexVal(s[2 * k])]

\* the binary bytes of field f of an output written under variant
FieldRaw(f, variant) == IF BitSet(variant, WKB_HEX) THEN Unhex(f.bytes) ELSE f.bytes

\* the uint32 <<top byte, low 24 bits>> that four bytes hold under an endian marker
UintOf(raw, marker) ==
    LET b == IF marker = 1 THEN Reverse(raw) ELSE raw
    IN  <<b[1], b[2] * 65536 + b[3] * 256 + b[4]>>

\* the value of the integer field f of the output in wkb
WkbUint(f) == UintOf(FieldRaw(f, wkb.variant), FieldRaw(wkb.fields[1], wkb.variant)[1])

\* the positions of the fields of one kind in the output in wkb
WkbFieldsOf(kind) == {k \in 1..Len(wkb.fields) : wkb.fields[k].kind = kind}

\* C11: the output holds an SRID integer only when the variant is EXTENDED
\* without NO_SRID and the geometry has a known SRID; it then holds exactly one,
\* the geometry's SRID, right after the outermost type code, and no sub-geometry
\* at any depth carries an SRID integer.
C11_SridOnceAtTop ==
    (pc = "wkb" /\ WkbSupported(geom)) =>
        IF BitSet(wkb.variant, WKB_EXTENDED) /\ ~BitSet(wkb.variant, WKB_NO_SRID)
           /\ geom.srid # SRID_UNKNOWN
        THEN /\ WkbFieldsOf("srid") = {3}
             /\ wkb.fields[1].kind = "endian" /\ wkb.fields[2].kind = "type"
             /\ WkbUint(wkb.fields[3]) = U32(geom.srid)
        ELSE WkbFieldsOf("srid") = {}

\* an EXTENDED collection with a known SRID whose child has the same SRID was
\* written with one SRID integer
C11_Witness ==
    /\ pc = "wkb" /\ wkb.status = "returned"
    /\ BitSet(wkb.variant, WKB_EXTENDED) /\ ~BitSet(wkb.variant, WKB_NO_SRID)
    /\ geom.type = COLLECTIONTYPE /\ Len(geom.geoms) > 0
    /\ geom.srid # SRID_UNKNOWN /\ geom.geoms[1].srid = geom.srid
    /\ WkbFieldsOf("srid") = {3}
    /\ Cardinality(WkbFieldsOf("type")) > 1

\* the geometries a type code is written for, in the order of the output: the
\* geometry, then what it holds, unless it is empty and the dialect is not EXTENDED
RECURSIVE WkbWritten(_, _)
WkbWritten(g, variant) ==
    IF ~BitSet(variant, WKB_EXTENDED) /\ lwgeom_is_empty(g) THEN <<g>>
    ELSE <<g>> \o Flatten([i \in 1..Len(g.geoms) |-> WkbWritten(g.geoms[i], variant)])

\* the fields of one kind of the output in wkb, in their order
WkbFieldSeq(kind) == SelectSeq(wkb.fields, LAMBDA f : f.kind = kind)

\* the type code the dialect asks for: additive offsets, or high bits in the top byte
IsoTypeCode(g) ==
    <<0, WkbBaseType(g.type) + (IF g.flags.z THEN 1000 ELSE 0) + (IF g.flags.m THEN 2000 ELSE 0)>>

ExtendedTypeCode(g, with_srid) ==
    <<(IF g.flags.z THEN 128 ELSE 0) + (IF g.flags.m THEN 64 ELSE 0)
        + (IF with_srid THEN 32 ELSE 0), WkbBaseType(g.type)>>

\* C12: the type code of every geometry written that is not a NurbsCurve is the
\* base code alone in SFSQL, the base code plus 1000 (Z), 2000 (M) or 3000 (ZM)
\* in ISO, and the base code with the Z and M high bits in EXTENDED (and the
\* SRID bit on the outermost geometry when its SRID is written); the type code
\* of a NurbsCurve has the ISO offsets in every dialect.
C12_TypeCodeByDialect ==
    (pc = "wkb" /\ WkbSupported(geom)) =>
        LET written == WkbWritten(geom, wkb.variant)
            codes == WkbFieldSeq("type")
            with_srid(k) == k = 1 /\ ~BitSet(wkb.variant, WKB_NO_SRID)
                              /\ geom.srid # SRID_UNKNOWN
        IN  /\ Len(codes) = Len(written)
            /\ \A k \in 1..Len(written) :
                  WkbUint(codes[k]) =
                     IF written[k].type = NURBSCURVETYPE THEN IsoTypeCode(written[k])
                     ELSE IF BitSet(wkb.variant, WKB_SFSQL)
                     THEN <<0, WkbBaseType(written[k].type)>>
                     ELSE IF BitSet(wkb.variant, WKB_ISO) THEN IsoTypeCode(written[k])
                     ELSE ExtendedTypeCode(written[k], with_srid(k))

\* an EXTENDED collection in XYZM that holds a NurbsCurve was written: its own
\* type code has the high bits, that of the NurbsCurve the offset 3000
C12_Witness ==
    /\ pc = "wkb" /\ wkb.status = "returned" /\ BitSet(wkb.variant, WKB_EXTENDED)
    /\ geom.type = COLLECTIONTYPE /\ geom.flags.z /\ geom.flags.m
    /\ \E i \in 1..Len(geom.geoms) : geom.geoms[i].type = NURBSCURVETYPE
    /\ WkbUint(wkb.fields[2])[1] >= 192
    /\ \E k \in WkbFieldsOf("type") :
          WkbUint(wkb.fields[k]) = <<0, WkbBaseType(NURBSCURVETYPE) + 3000>>

\* the kinds of the fields of the output in wkb, in their order
WkbKinds == [k \in 1..Len(wkb.fields) |-> wkb.fields[k].kind]

\* the binary bytes of the output in wkb, without the terminator of a hex buffer
WkbRaw == Flatten([k \in 1..Len(wkb.fields) |-> FieldRaw(wkb.fields[k], wkb.variant)])

\* the eight bytes of field f of the output in wkb, most significant first
WkbImage(f) ==
    LET raw == FieldRaw(f, wkb.variant)
    IN  IF FieldRaw(wkb.fields[1], wkb.variant)[1] = 1 THEN Reverse(raw) ELSE raw

\* the quiet NaN 0x7ff8000000000000
NaNImage == <<127, 248, 0, 0, 0, 0, 0, 0>>

\* an empty geometry is handed to the writer in the SFSQL or ISO dialect
EmptyAtTop ==
    /\ pc = "wkb" /\ WkbSupported(geom) /\ lwgeom_is_empty(geom)
    /\ ~BitSet(wkb.variant, WKB_EXTENDED)

\* the output is the endian byte, the type code and one zero count
ZeroCountForm ==
    /\ WkbKinds = <<"endian", "type", "count">>
    /\ WkbUint(wkb.fields[3]) = <<0, 0>>
    /\ Len(WkbRaw) = 9

RECURSIVE HasNurbs(_)
HasNurbs(g) == g.type = NURBSCURVETYPE \/ \E i \in 1..Len(g.geoms) : HasNurbs(g.geoms[i])

\* the number of ordinates in the output in wkb: the doubles written one by one
\* and those of the blocks copied whole
WkbOrdinates ==
    SumSeq([k \in 1..Len(wkb.fields) |->
               IF wkb.fields[k].kind \in {"double", "nan"} THEN 1
               ELSE IF wkb.fields[k].kind = "block"
               THEN Len(FieldRaw(wkb.fields[k], wkb.variant)) \div 8
               ELSE 0])

\* the number of points the output in wkb announces: one for each Point, and
\* the count of each point array
WkbPointsAnnounced ==
    SumSeq([k \in 1..Len(wkb.fields) |->
               IF wkb.fields[k].kind = "npoints" THEN WkbUint(wkb.fields[k])[2]
               ELSE IF wkb.fields[k].kind = "type"
                       /\ WkbUint(wkb.fields[k]) = <<0, WkbBaseType(POINTTYPE)>>
               THEN 1 ELSE 0])

\* C14: with the SFSQL dialect, for every geometry without a NurbsCurve, whatever
\* its Z/M flags and whether or not it is empty, no type code written carries a
\* dimension mark and every point written has exactly two ordinates, so that
\* the ordinates in the output are twice the points the 2D type codes and the
\* counts announce.
C14_SfsqlIsTwoD ==
    (pc = "wkb" /\ WkbSupported(geom) /\ ~HasNurbs(geom) /\ BitSet(wkb.variant, WKB_SFSQL)) =>
        /\ \A k \in WkbFieldsOf("type") :
              /\ WkbUint(wkb.fields[k])[1] = 0
              /\ WkbUint(wkb.fields[k])[2] < 1000
        /\ WkbOrdinates = 2 * WkbPointsAnnounced

\* the variant with its byte order flags replaced by order
WkbWithOrder(variant, order) ==
    variant - (IF BitSet(variant, WKB_NDR) THEN WKB_NDR ELSE 0)
            - (IF BitSet(variant, WKB_XDR) THEN WKB_XDR ELSE 0) + order

\* the byte order of the machine, as a flag of the variant
NativeOrder(big_endian) == IF big_endian THEN WKB_XDR ELSE WKB_NDR

\* C15: when the variant names neither or both of WKB_NDR and WKB_XDR, the
\* output is in the byte order of the machine, on little- and big-endian
\* machines alike: the endian marker says so (0 on a big-endian machine, 1 on a
\* little-endian one) and the output is, field by field, the one written when
\* the variant names the machine's order alone.
C15_DefaultOrderIsNative ==
    (/\ pc = "wkb" /\ WkbSupported(geom)
     /\ BitSet(wkb.variant, WKB_NDR) = BitSet(wkb.variant, WKB_XDR)) =>
        /\ FieldRaw(wkb.fields[1], wkb.variant) = <<IF wkb.big_endian THEN 0 ELSE 1>>
        /\ wkb.fields =
              lwgeom_to_wkb_buf(geom, WkbWithOrder(wkb.variant, NativeOrder(wkb.big_endian)),
                                wkb.big_endian).fields

\* the text of the hex output in wkb: what was stored, less the terminator of a buffer
WkbHexText ==
    IF wkb.op = "buffer" THEN SubSeq(wkb.bytes, 1, Len(wkb.bytes) - 1) ELSE wkb.bytes

\* what the writer stores for the geometry and variant of wkb without WKB_HEX
WkbBinaryFields == lwgeom_to_wkb_write_buf(geom, wkb.variant - WKB_HEX, wkb.big_endian).fields

\* C16: for every geometry and variant, hex output consists of the characters
\* 0-9 and A-F only, two for each byte, and reading each pair as one byte gives
\* exactly the binary output for the same geometry and variant without HEX.
C16_HexIsBinaryInHex ==
    (pc = "wkb" /\ WkbSupported(geom) /\ BitSet(wkb.variant, WKB_HEX)) =>
        /\ \A k \in 1..Len(WkbHexText) : WkbHexText[k] \in HexDigits
        /\ Len(WkbHexText) % 2 = 0
        /\ Unhex(WkbHexText) = FieldBytes(WkbBinaryFields)

\* a hex varlena of a LineString was written whose binary output copies the
\* points as one block
C16_Witness ==
    /\ pc = "wkb" /\ wkb.status = "returned" /\ wkb.op = "varlena"
    /\ BitSet(wkb.variant, WKB_HEX) /\ geom.type = LINETYPE
    /\ \E k \in 1..Len(WkbBinaryFields) : WkbBinaryFields[k].kind = "block"
    /\ \E k \in 1..Len(WkbHexText) : WkbHexText[k] >= 65

\* the fields of an output as binary bytes, a block copied whole being read as
\* the doubles it holds
WkbLayout(fields, variant) ==
    Flatten([k \in 1..Len(fields) |->
        LET raw == FieldRaw(fields[k], variant)
        IN  IF fields[k].kind = "block"
            THEN [j \in 1..(Len(raw) \div 8) |->
                     [kind |-> "double", bytes |-> SubSeq(raw, 8 * j - 7, 8 * j)]]
            ELSE <<[kind |-> fields[k].kind, bytes |-> raw]>>])

\* what the writer stores for the geometry and variant of wkb with WKB_XDR for WKB_NDR
WkbXdrFields ==
    lwgeom_to_wkb_write_buf(geom, WkbWithOrder(wkb.variant, WKB_XDR), wkb.big_endian).fields

\* the variant of wkb names WKB_NDR alone
NdrWritten == pc = "wkb" /\ BitSet(wkb.variant, WKB_NDR) /\ ~BitSet(wkb.variant, WKB_XDR)

\* C17: for every geometry and dialect, the NDR and the XDR output have the same
\* length and the same fields; every endian marker is 1 in NDR and 0 in XDR,
\* every one-byte flag is the same, and every 4-byte integer and 8-byte double
\* (the NaN of an empty Point and the doubles of a block copied whole included)
\* is the byte reversal of the field it corresponds to.
C17_NdrMirrorsXdr ==
    (NdrWritten /\ WkbSupported(geom)) =>
        LET ndr == WkbLayout(wkb.fields, wkb.variant)
            xdr == WkbLayout(WkbXdrFields, wkb.variant)
        IN  /\ Len(ndr) = Len(xdr)
            /\ \A k \in 1..Len(ndr) :
                  /\ ndr[k].kind = xdr[k].kind
                  /\ CASE ndr[k].kind = "endian" ->
                            ndr[k].bytes = <<1>> /\ xdr[k].bytes = <<0>>
                       [] ndr[k].kind = "has_weight" ->
                            Len(ndr[k].bytes) = 1 /\ ndr[k].bytes = xdr[k].bytes
                       [] ndr[k].kind \in {"double", "nan", "weight", "knot"} ->
                            Len(ndr[k].bytes) = 8 /\ ndr[k].bytes = Reverse(xdr[k].bytes)
                       [] OTHER ->
                            Len(ndr[k].bytes) = 4 /\ ndr[k].bytes = Reverse(xdr[k].bytes)

\* a MultiPoint that holds an empty Point and a Point was written in binary NDR
\* on a little-endian machine: the NaN one by one, the ordinates of the Point
\* as one block
C17_Witness ==
    /\ NdrWritten /\ wkb.status = "returned" /\ ~wkb.big_endian
    /\ ~BitSet(wkb.variant, WKB_HEX) /\ geom.type = MULTIPOINTTYPE
    /\ WkbFieldsOf("nan") # {} /\ WkbFieldsOf("block") # {}

\* the eight bytes of the doubles 0.0 and 1.0, most significant first
ZeroImage == <<0, 0, 0, 0, 0, 0, 0, 0>>
OneImage == <<63, 240, 0, 0, 0, 0, 0, 0>>

\* C18: every NurbsCurve the writer emits carries a knot vector: the nknots
\* written is never 0, and for a curve that stores no knots it is
\* npoints + degree + 1, followed by that many knots of a clamped uniform
\* vector, the first degree + 1 of them 0.0 and the last degree + 1 of them 1.0.
C18_KnotsAlwaysWritten ==
    (pc = "wkb" /\ WkbSupported(geom)) =>
        /\ \A k \in WkbFieldsOf("nknots") : WkbUint(wkb.fields[k]) # <<0, 0>>
        /\ (geom.type = NURBSCURVETYPE /\ geom.knots = <<>> /\ WkbFieldsOf("nknots") # {}) =>
              LET knots == WkbFieldSeq("knot")
                  np == IF geom.points.null THEN 0 ELSE npoints(geom.points)
              IN  /\ WkbUint(WkbFieldSeq("nknots")[1]) = <<0, np + geom.degree + 1>>
                  /\ Len(knots) = np + geom.degree + 1
                  /\ \A i \in 1..Len(knots) :
                        /\ i <= geom.degree + 1 => WkbImage(knots[i]) = ZeroImage
                        /\ i > Len(knots) - geom.degree - 1 => WkbImage(knots[i]) = OneImage

(***************************************************************************)
(* NurbsCurves: construction and validation.  A caller hands               *)
(* lwnurbscurve_construct a degree, control points and optional weights    *)
(* and knots; a curve it gets back, or one that comes from elsewhere (a    *)
(* stored record holds whatever degree and counts were written to it), is  *)
(* encoded, and ST_NurbsCurveIsValid is applied to the record.             *)
(*                                                                         *)
(* The repository holds lwnurbscurve_construct twice: in                   *)
(* src/liblwgeom/lwgeom_nurbs.c and in src/unnamed/part_001.               *)
(***************************************************************************)
\* ST_NurbsCurveIsValid (lwgeom_nurbs_functions.c), from the geometry decoded
\* from its argument on; NullGeom is the NULL lwgeom_from_gserialized returns
ST_NurbsCurveIsValid(g) ==
    IF g = NullGeom \/ g.type # NURBSCURVETYPE THEN FALSE
    ELSE IF g.points.null \/ npoints(g.points) < g.degree + 1 THEN FALSE
    ELSE IF /\ g.weights # <<>> /\ g.nweights > 0
            /\ \/ g.nweights < npoints(g.points)
               \/ \E i \in 1..npoints(g.points) : i <= g.nweights /\ g.weights[i] <= 0
    THEN FALSE
    ELSE IF g.knots # <<>> /\ g.nknots > 0
    THEN LET expected_knots == npoints(g.points) + g.degree + 1
             actual_check_count == IF g.nknots < expected_knots THEN g.nknots
                                   ELSE expected_knots
         IN  /\ ~(g.nknots < expected_knots)
             /\ \A i \in 2..actual_check_count : ~(g.knots[i] < g.knots[i - 1])
    ELSE TRUE

(***************************************************************************)
(* Evaluation of a NurbsCurve (lwgeom_nurbs.c).  The parameter, the knots  *)
(* and the ordinates of the result are fractions.  The LWPOINT or LWLINE   *)
(* handed back is a record of its type, SRID, dimensions and points, each  *)
(* point being the ordinates its POINTARRAY stores.                        *)
(***************************************************************************)
FracGeom(type, srid, hasz, hasm, pts) ==
    [type |-> type, srid |-> srid, z |-> hasz, m |-> hasm, pts |-> pts]

\* lwpoint_construct_empty and lwline_construct_empty
lwpoint_construct_empty(srid, hasz, hasm) == FracGeom(POINTTYPE, srid, hasz, hasm, <<>>)
lwline_construct_empty(srid, hasz, hasm) == FracGeom(LINETYPE, srid, hasz, hasm, <<>>)

\* ptarray_append_point: the ordinates of a POINT4D that an array of the given
\* dimensions stores
StoredOrdinates(p4, hasz, hasm) ==
    <<p4.x, p4.y>> \o (IF hasz THEN <<p4.z>> ELSE <<>>) \o (IF hasm THEN <<p4.m>> ELSE <<>>)

\* getPoint4d_p, the ordinates as fractions
FracPoint4d(pa, n) ==
    LET p == getPoint4d(pa, n)
    IN  [x |-> Rat(p.x, 1), y |-> Rat(p.y, 1), z |-> Rat(p.z, 1), m |-> Rat(p.m, 1)]

RECURSIVE RSum(_)
RSum(qs) == IF qs = <<>> THEN RZero ELSE RAdd(Head(qs), RSum(Tail(qs)))

RECURSIVE lwnurbscurve_basis_function_closed(_, _, _, _)
\* fault injection: lwnurbscurve_basis_function with the span of degree 0 closed
\* at its upper knot
lwnurbscurve_basis_function_closed(i, p, u, knots) ==
    IF i < 0 \/ i + p + 1 >= Len(knots) THEN RZero
    ELSE IF p = 0
    THEN (IF RLe(knots[i + 1], u) /\ RLe(u, knots[i + 2]) THEN ROne ELSE RZero)
    ELSE LET denom1 == RSub(knots[i + p + 1], knots[i + 1])
             term1 == IF denom1 # RZero
                      THEN RMul(RDiv(RSub(u, knots[i + 1]), denom1),
                                lwnurbscurve_basis_function_closed(i, p - 1, u, knots))
                      ELSE RZero
             denom2 == RSub(knots[i + p + 2], knots[i + 2])
             term2 == IF denom2 # RZero
                      THEN RMul(RDiv(RSub(knots[i + p + 2], u), denom2),
                                lwnurbscurve_basis_function_closed(i + 1, p - 1, u, knots))
                      ELSE RZero
         IN  RAdd(term1, term2)

RECURSIVE lwnurbscurve_basis_function(_, _, _, _)
\* lwnurbscurve_basis_function: the Cox-de-Boor recursion; i counts from 0 as
\* in the code, knots[j] of the code is knots[j + 1] here
lwnurbscurve_basis_function(i, p, u, knots) ==
    IF i < 0 \/ i + p + 1 >= Len(knots) THEN RZero
    ELSE IF p = 0
    THEN (IF RLe(knots[i + 1], u) /\ RLt(u, knots[i + 2]) THEN ROne ELSE RZero)
    ELSE LET denom1 == RSub(knots[i + p + 1], knots[i + 1])
             term1 == IF denom1 # RZero
                      THEN RMul(RDiv(RSub(u, knots[i + 1]), denom1),
                                lwnurbscurve_basis_function(i, p - 1, u, knots))
                      ELSE RZero
             denom2 == RSub(knots[i + p + 2], knots[i + 2])
             term2 == IF denom2 # RZero
                      THEN RMul(RDiv(RSub(knots[i + p + 2], u), denom2),
                                lwnurbscurve_basis_function(i + 1, p - 1, u, knots))
                      ELSE RZero
         IN  RAdd(term1, term2)

\* the label create_result of lwnurbscurve_evaluate
create_result(curve, result) ==
    FracGeom(POINTTYPE, curve.srid, curve.flags.z, curve.flags.m,
             <<StoredOrdinates(result, curve.flags.z, curve.flags.m)>>)

\* the loop of lwnurbscurve_evaluate over the control points, and the division
\* that follows it
WeightedSum(curve, t, knots) ==
    LET np == npoints(curve.points)
        hasz == curve.flags.z
        hasm == curve.flags.m
        wN == [i \in 1..np |->
                  RMul(IF curve.weights # <<>> /\ i - 1 < curve.nweights
                       THEN Rat(curve.weights[i], 1) ELSE ROne,
                       lwnurbscurve_basis_function(i - 1, curve.degree, t, knots))]
        ctrl == [i \in 1..np |-> FracPoint4d(curve.points, i)]
        denom == RSum(wN)
        x == RSum([i \in 1..np |-> RMul(wN[i], ctrl[i].x)])
        y == RSum([i \in 1..np |-> RMul(wN[i], ctrl[i].y)])
        z == IF hasz THEN RSum([i \in 1..np |-> RMul(wN[i], ctrl[i].z)]) ELSE RZero
        m == IF hasm THEN RSum([i \in 1..np |-> RMul(wN[i], ctrl[i].m)]) ELSE RZero
        rational == curve.weights # <<>> /\ denom # RZero
        Q(v) == IF rational THEN RDiv(v, denom) ELSE v
    IN  [x |-> Q(x), y |-> Q(y), z |-> Q(z), m |-> Q(m)]

\* fault injection: lwnurbscurve_evaluate without the test t >= 1.0, the parameter
\* taken through the basis functions whatever its value above 0
lwnurbscurve_evaluate_open_end(curve, t) ==
    IF curve.points.null \/ npoints(curve.points) = 0
    THEN lwpoint_construct_empty(SRID_UNKNOWN, FALSE, FALSE)
    ELSE IF RLe(t, RZero) THEN create_result(curve, FracPoint4d(curve.points, 1))
    ELSE LET knots == lwnurbscurve_get_knots_for_wkb(curve)
         IN  IF knots = <<>>
             THEN lwpoint_construct_empty(curve.srid, curve.flags.z, curve.flags.m)
             ELSE create_result(curve, WeightedSum(curve, t, knots))

\* lwnurbscurve_evaluate: the point of the curve at parameter t
lwnurbscurve_evaluate(curve, t) ==
    IF curve.points.null \/ npoints(curve.points) = 0
    THEN lwpoint_construct_empty(SRID_UNKNOWN, FALSE, FALSE)
    ELSE IF RLe(t, RZero) THEN create_result(curve, FracPoint4d(curve.points, 1))
    ELSE IF RLe(ROne, t)
    THEN create_result(curve, FracPoint4d(curve.points, npoints(curve.points)))
    ELSE LET knots == lwnurbscurve_get_knots_for_wkb(curve)
         IN  IF knots = <<>>
             THEN lwpoint_construct_empty(curve.srid, curve.flags.z, curve.flags.m)
             ELSE create_result(curve, WeightedSum(curve, t, knots))

\* lwnurbscurve_to_linestring: the curve sampled at i / num_segments, i from 0
\* to num_segments; a sample that is an empty point adds nothing
lwnurbscurve_to_linestring(curve, num_segments) ==
    IF curve.points.null \/ npoints(curve.points) = 0
    THEN lwline_construct_empty(SRID_UNKNOWN, FALSE, FALSE)
    ELSE LET segs == IF num_segments < 2 THEN 2 ELSE num_segments
             pt == [i \in 0..segs |-> lwnurbscurve_evaluate(curve, Rat(i, segs))]
         IN  FracGeom(LINETYPE, curve.srid, curve.flags.z, curve.flags.m,
                      Flatten([k \in 1..(segs + 1) |-> pt[k - 1].pts]))

\* lwnurbscurve_clone_deep: the copy lwnurbscurve_construct makes of the fields of
\* the curve, with a copy of its bbox; NullGeom when the constructor returns NULL
lwnurbscurve_clone_deep(curve) ==
    IF curve = NullGeom THEN NullGeom
    ELSE LET copy == lwnurbscurve_construct(curve.srid, curve.degree, curve.points,
                         curve.weights, curve.knots, curve.nweights, curve.nknots)
         IN  IF copy = NullGeom THEN NullGeom ELSE [copy EXCEPT !.bbox = curve.bbox]

\* the degrees handed in: the admitted ones up to MaxDegree, 10, and those next to them
NurbsDegrees == {0} \cup (1..MaxDegree) \cup {10, 11}

\* weight vectors of n entries: all positive, or with a zero
WeightVectors(n) == {SomeWeights(n), [k \in 1..n |-> IF k = n THEN 0 ELSE 1]}

\* knot vectors of n entries: non-decreasing, or with one descent
KnotVectors(n) ==
    {[k \in 1..n |-> IF 2 * k <= n THEN 0 ELSE 4]}
      \cup (IF n >= 2 THEN {[k \in 1..n |-> IF k = n - 1 THEN 4 ELSE IF k = n THEN 2 ELSE 0]}
            ELSE {})

\* the counts handed in with an array: its length, or, with a NULL array, 0 or a
\* count that stands alone
CountsFor(array) == IF array = <<>> THEN {0, MaxPoints} ELSE {Len(array)}

\* the arguments handed to lwnurbscurve_construct
NurbsArgs ==
    UNION {{[op |-> "args", version |-> "", degree |-> degree, points |-> points,
             weights |-> weights, knots |-> knots, nweights |-> nweights, nknots |-> nknots,
             errors |-> <<>>, status |-> "none"] :
               nweights \in CountsFor(weights), nknots \in CountsFor(knots),
               degree \in NurbsDegrees,
               points \in {NullPA} \cup {PA(FALSE, FALSE, Canon(n)) : n \in 0..MaxPoints}} :
           weights \in {<<>>} \cup {SomeWeights(n) : n \in 1..(MaxPoints + 1)},
           knots \in {<<>>} \cup
                     UNION {KnotVectors(n) : n \in {MaxPoints, MaxPoints + 2, MaxPoints + 3}}}

\* a NurbsCurve with the fields a record holds
StoredCurve(degree, n, weights, knots) ==
    [type |-> NURBSCURVETYPE, flags |-> lwflags(FALSE, FALSE, FALSE), srid |-> SRID_UNKNOWN,
     bbox |-> FALSE, points |-> PA(FALSE, FALSE, Canon(n)), rings |-> <<>>, geoms |-> <<>>,
     degree |-> degree, nweights |-> Len(weights), nknots |-> Len(knots),
     weights |-> weights, knots |-> knots]

\* the geometries whose records are handed to ST_NurbsCurveIsValid without having
\* been built by lwnurbscurve_construct
StoredGeoms ==
    UNION {UNION {{StoredCurve(degree, n, weights, knots) :
                      weights \in {<<>>} \cup UNION {WeightVectors(k) :
                                                        k \in {n - 1, n, n + 1} \cap (1..4)},
                      knots \in {<<>>} \cup UNION {KnotVectors(k) :
                                   k \in {n + degree, n + degree + 1, n + degree + 2}}} :
                  n \in 1..MaxPoints} :
           degree \in 0..MaxDegree}
      \cup {Leaf(LINETYPE, <<FALSE, FALSE>>, <<1, 2>>)}

\* the curve of the regression tests: ST_MakeNurbsCurve(2, 'LINESTRING(0 0, 1 1, 2 0)')
RegressCurve ==
    lwnurbscurve_construct(SRID_UNKNOWN, 2,
        PtArray(FALSE, FALSE, <<<<0, 0>>, <<1, 1>>, <<2, 0>>>>), <<>>, <<>>, 0, 0)

\* the curves handed to the evaluation: built by lwnurbscurve_construct from up to
\* MaxCtrl control points of every dimensionality, with and without an SRID,
\* weights and stored knots, and the empty curves
EvalCurves ==
    UNION {{lwnurbscurve_construct(srid, degree, PA(d[1], d[2], Canon(n)),
                IF withw THEN SomeWeights(n) ELSE <<>>,
                IF withk THEN SomeKnots(n, degree) ELSE <<>>,
                IF withw THEN n ELSE 0,
                IF withk THEN n + degree + 1 ELSE 0) :
              srid \in {SRID_UNKNOWN, SRID_WGS84}, d \in Dims,
              withw \in BOOLEAN, withk \in BOOLEAN} :
           degree \in 1..MaxDegree, n \in 0..MaxCtrl}
      \cup {lwnurbscurve_construct_empty(srid, d[1], d[2]) :
               srid \in {SRID_UNKNOWN, SRID_WGS84}, d \in Dims}
      \cup {RegressCurve}

\* the parameters a curve is evaluated at: below, at and above both ends, and between
EvalParams ==
    {Rat(0 - 1, 2), RZero, Rat(1, 4), Rat(1, 3), Rat(1, 2), Rat(2, 3), Rat(3, 4), ROne,
     Rat(3, 2)}

NurbsInit ==
    /\ \/ pc = "args" /\ geom = NullGeom /\ probe \in NurbsArgs
       \/ pc = "geom" /\ geom \in StoredGeoms \cup EvalCurves /\ probe = NoProbe
    /\ ser = NoSer
    /\ dec = NoDec
    /\ wkb = NoWkb

\* what the caller of lwnurbscurve_construct is left with
ConstructOutcome(version, curve, errs, handler) ==
    IF errs # <<>> /\ handler = "noreturn"
    THEN [probe EXCEPT !.op = "construct", !.version = version, !.errors = <<errs[1]>>,
                       !.status = "error"]
    ELSE [probe EXCEPT !.op = "construct", !.version = version, !.errors = errs,
                       !.status = IF curve = NullGeom THEN "null" ELSE "curve"]

\* lwnurbscurve_construct of src/liblwgeom/lwgeom_nurbs.c
NurbsConstruct ==
    /\ pc = "args"
    /\ \E handler \in Handlers :
          LET curve == lwnurbscurve_construct(SRID_UNKNOWN, probe.degree, probe.points,
                           probe.weights, probe.knots, probe.nweights, probe.nknots)
              errs == lwnurbscurve_construct_errors(probe.degree, probe.points, probe.weights,
                           probe.knots, probe.nweights, probe.nknots)
          IN  /\ probe' = ConstructOutcome("lwgeom_nurbs.c", curve, errs, handler)
              /\ geom' = IF probe'.status = "curve" THEN curve ELSE NullGeom
    /\ pc' = IF geom' = NullGeom THEN "rejected" ELSE "geom"
    /\ UNCHANGED <<ser, dec, wkb>>

\* lwnurbscurve_construct of src/unnamed/part_001
NurbsConstructPart001 ==
    /\ pc = "args"
    /\ LET curve == lwnurbscurve_construct_part_001(SRID_UNKNOWN, probe.degree, probe.points,
                        probe.weights, probe.knots, probe.nweights, probe.nknots)
       IN  /\ probe' = ConstructOutcome("part_001", curve, <<>>, "returns")
           /\ geom' = curve
    /\ pc' = IF geom' = NullGeom THEN "rejected" ELSE "geom"
    /\ UNCHANGED <<ser, dec, wkb>>

\* ST_NurbsCurveIsValid, applied to the record the encoder handed over
NurbsCurveIsValid ==
    /\ Readable
    /\ \E r \in {lwgeom_from_gserialized2(ser.g)}, handler \in Handlers :
          IF r.errs # <<>> /\ handler = "noreturn"
          THEN probe' = [op |-> "nurbs_is_valid", status |-> "error", result |-> FALSE]
          ELSE probe' = [op |-> "nurbs_is_valid", status |-> "returned",
                         result |-> ST_NurbsCurveIsValid(r.lwgeom)]
    /\ pc' = "probed"
    /\ UNCHANGED <<geom, ser, dec, wkb>>

\* lwnurbscurve_evaluate, as ST_NurbsEvaluate calls it on a NurbsCurve
NurbsEvaluate ==
    /\ pc = "geom"
    /\ geom.type = NURBSCURVETYPE
    /\ \E t \in EvalParams :
          probe' = [op |-> "evaluate", t |-> t, result |-> lwnurbscurve_evaluate(geom, t)]
    /\ pc' = "evaluated"
    /\ UNCHANGED <<geom, ser, dec, wkb>>

\* lwnurbscurve_to_linestring
NurbsToLinestring ==
    /\ pc = "geom"
    /\ geom.type = NURBSCURVETYPE
    /\ \E num_segments \in 0..MaxSegments :
          probe' = [op |-> "to_linestring", num_segments |-> num_segments,
                    result |-> lwnurbscurve_to_linestring(geom, num_segments)]
    /\ pc' = "sampled"
    /\ UNCHANGED <<geom, ser, dec, wkb>>

\* lwnurbscurve_clone_deep; the reports are those of the constructor it calls
NurbsClone ==
    /\ pc = "geom"
    /\ geom.type = NURBSCURVETYPE
    /\ \E handler \in Handlers :
          LET errs == lwnurbscurve_construct_errors(geom.degree, geom.points, geom.weights,
                          geom.knots, geom.nweights, geom.nknots)
              copy == lwnurbscurve_clone_deep(geom)
          IN  probe' = IF errs # <<>> /\ handler = "noreturn"
                       THEN [op |-> "clone", status |-> "error", result |-> NullGeom]
                       ELSE [op |-> "clone",
                             status |-> IF copy = NullGeom THEN "null" ELSE "curve",
                             result |-> copy]
    /\ pc' = "cloned"
    /\ UNCHANGED <<geom, ser, dec, wkb>>

\* lwnurbscurve_generate_uniform_knots, in either version, as
\* lwnurbscurve_get_knots_for_wkb calls it with the degree and the number of
\* control points of a curve; *nknots_out is the length of the vector, 0 with NULL
NurbsGenerateKnots ==
    /\ pc = "geom"
    /\ geom.type = NURBSCURVETYPE
    /\ ~geom.points.null
    /\ \E version \in {"lwgeom_nurbs.c", "part_001"} :
          \E knots \in {IF version = "part_001"
                        THEN lwnurbscurve_generate_uniform_knots_part_001(
                                 geom.degree, npoints(geom.points))
                        ELSE lwnurbscurve_generate_uniform_knots(
                                 geom.degree, npoints(geom.points))} :
             probe' = [op |-> "generate_knots", version |-> version,
                       degree |-> geom.degree, npoints |-> npoints(geom.points),
                       knots |-> knots, nknots |-> Len(knots)]
    /\ pc' = "generated"
    /\ UNCHANGED <<geom, ser, dec, wkb>>

NurbsNext ==
    \/ NurbsConstruct
    \/ NurbsConstructPart001
    \/ Serialize
    \/ NurbsCurveIsValid
    \/ NurbsEvaluate
    \/ NurbsToLinestring
    \/ NurbsClone
    \/ NurbsGenerateKnots
    \/ Deserialize

NurbsSpec == NurbsInit /\ [][NurbsNext]_vars

\* C19: lwnurbscurve_construct, in either of its two versions, rejects its input
\* and leaves the caller without a curve when the degree is outside [1,10], when
\* weights are handed in with control points and their count differs from the
\* number of control points, or when knots are handed in with control points and
\* their count differs from npoints + degree + 1.
C19_ConstructRejects ==
    (probe.op = "construct" /\ pc \in {"geom", "rejected"}) =>
        LET np == npoints(probe.points)
            refused ==
                \/ probe.degree < 1 \/ probe.degree > 10
                \/ ~probe.points.null /\ probe.weights # <<>> /\ Len(probe.weights) # np
                \/ ~probe.points.null /\ probe.knots # <<>>
                     /\ Len(probe.knots) # np + probe.degree + 1
        IN  refused => (probe.status # "curve" /\ geom = NullGeom /\ pc = "rejected")

\* the conditions of validity: a NurbsCurve of degree 1 to 10 with at least
\* degree + 1 control points, weights absent or one for each control point and
\* all positive, knots absent or npoints + degree + 1 of them and non-decreasing
NurbsConditions(g) ==
    /\ g.type = NURBSCURVETYPE
    /\ g.degree >= 1 /\ g.degree <= 10
    /\ ~g.points.null /\ npoints(g.points) >= g.degree + 1
    /\ g.weights # <<>> =>
          /\ Len(g.weights) = npoints(g.points)
          /\ \A i \in 1..Len(g.weights) : g.weights[i] > 0
    /\ g.knots # <<>> =>
          /\ Len(g.knots) = npoints(g.points) + g.degree + 1
          /\ \A i \in 2..Len(g.knots) : g.knots[i - 1] <= g.knots[i]

\* C20: ST_NurbsCurveIsValid returns true only for a NurbsCurve whose degree is
\* in [1,10], that has at least degree + 1 control points, whose weights (when
\* present) number exactly npoints and are all positive, and whose knots (when
\* present) number exactly npoints + degree + 1 and are non-decreasing; it
\* returns false whenever one of these conditions fails.
C20_IsValidExact ==
    (pc = "probed" /\ probe.op = "nurbs_is_valid" /\ probe.status = "returned") =>
        (probe.result <=> NurbsConditions(geom))

\* the ordinates control point n of the curve stores, as fractions
ControlPoint(curve, n) ==
    [j \in 1..Len(curve.points.pts[n]) |-> Rat(curve.points.pts[n][j], 1)]

HasControlPoints(curve) == ~curve.points.null /\ npoints(curve.points) >= 1

\* C21: for a curve with at least one control point, evaluating at any parameter
\* t <= 0 returns exactly the first control point and at any t >= 1 exactly the
\* last one, as a Point with the SRID and the dimensions of the curve, whatever
\* the degree, the weights and the knots.
C21_EndsAreControlPoints ==
    (pc = "evaluated" /\ probe.op = "evaluate" /\ HasControlPoints(geom)
       /\ (RLe(probe.t, RZero) \/ RLe(ROne, probe.t))) =>
        LET n == IF RLe(probe.t, RZero) THEN 1 ELSE npoints(geom.points)
        IN  /\ probe.result.type = POINTTYPE
            /\ probe.result.srid = geom.srid
            /\ probe.result.z = geom.flags.z
            /\ probe.result.m = geom.flags.m
            /\ probe.result.pts = <<ControlPoint(geom, n)>>

\* a weighted XYZ curve with an SRID and stored knots, evaluated beyond its end:
\* the result is its last control point, which is not its first
C21_Witness ==
    /\ pc = "evaluated" /\ probe.op = "evaluate"
    /\ RLt(ROne, probe.t)
    /\ npoints(geom.points) >= 2
    /\ geom.weights # <<>> /\ geom.knots # <<>>
    /\ geom.srid = SRID_WGS84 /\ geom.flags.z /\ ~geom.flags.m
    /\ probe.result.pts = <<ControlPoint(geom, npoints(geom.points))>>
    /\ ControlPoint(geom, npoints(geom.points)) # ControlPoint(geom, 1)

\* C22: for a curve with at least one control point and any segment count s
\* (a count below 2 is taken as 2), lwnurbscurve_to_linestring returns a
\* LineString of exactly s + 1 points with the SRID and the dimensions of the
\* curve, whose first point is C(0) and whose last point is C(1).
C22_SegmentsPlusOnePoints ==
    (pc = "sampled" /\ probe.op = "to_linestring" /\ HasControlPoints(geom)) =>
        LET s == IF probe.num_segments < 2 THEN 2 ELSE probe.num_segments
            line == probe.result
        IN  /\ line.type = LINETYPE
            /\ line.srid = geom.srid
            /\ line.z = geom.flags.z
            /\ line.m = geom.flags.m
            /\ Len(line.pts) = s + 1
            /\ <<line.pts[1]>> = lwnurbscurve_evaluate(geom, RZero).pts
            /\ <<line.pts[Len(line.pts)]>> = lwnurbscurve_evaluate(geom, ROne).pts

\* C23: evaluating a curve that has no control points returns an empty Point
\* with the same SRID and the same Z/M dimensions as the curve, for every
\* parameter.
C23_EmptyCurveKeepsSridAndDims ==
    (pc = "evaluated" /\ probe.op = "evaluate" /\ ~HasControlPoints(geom)) =>
        /\ probe.result.type = POINTTYPE
        /\ probe.result.pts = <<>>
        /\ probe.result.srid = geom.srid
        /\ probe.result.z = geom.flags.z
        /\ probe.result.m = geom.flags.m

\* the values N_i,degree(u), i from 0 to npoints - 1, over the knots the curve is
\* evaluated with
BasisValues(curve, u) ==
    [i \in 1..npoints(curve.points) |->
        lwnurbscurve_basis_function(i - 1, curve.degree, u,
                                    lwnurbscurve_get_knots_for_wkb(curve))]

\* the sum of the control points, each multiplied by its basis value
BasisWeightedSum(curve, u) ==
    LET N == BasisValues(curve, u)
    IN  [j \in 1..Len(curve.points.pts[1]) |->
            RSum([i \in 1..npoints(curve.points) |-> RMul(N[i], ControlPoint(curve, i)[j])])]

\* a curve without weights and without stored knots that has at least
\* degree + 1 control points and a synthesized knot vector
NonRationalClamped(curve) ==
    /\ HasControlPoints(curve)
    /\ curve.weights = <<>> /\ curve.knots = <<>>
    /\ npoints(curve.points) >= curve.degree + 1
    /\ lwnurbscurve_get_knots_for_wkb(curve) # <<>>

\* C24: for a non-rational curve with npoints >= degree + 1 and the synthesized
\* clamped uniform knot vector, the basis values N_i,degree(u), i from 0 to
\* npoints - 1, sum to 1 for every 0 < u < 1, in exact arithmetic, so that C(u)
\* is the sum of the control points weighted by them; for degree 2 and the
\* control points (0,0), (1,1), (2,0), C(1/2) is (1, 1/2).
C24_PartitionOfUnity ==
    (pc = "evaluated" /\ probe.op = "evaluate" /\ NonRationalClamped(geom)
       /\ RLt(RZero, probe.t) /\ RLt(probe.t, ROne)) =>
        /\ RSum(BasisValues(geom, probe.t)) = ROne
        /\ probe.result.pts = <<BasisWeightedSum(geom, probe.t)>>
        /\ (geom = RegressCurve /\ probe.t = Rat(1, 2)) =>
              probe.result.pts = <<<<Rat(1, 1), Rat(1, 2)>>>>

\* an XYZ curve of degree 2 with an interior knot, evaluated at that knot
C24_Witness ==
    /\ pc = "evaluated" /\ probe.op = "evaluate" /\ NonRationalClamped(geom)
    /\ RLt(RZero, probe.t) /\ RLt(probe.t, ROne)
    /\ geom.degree = 2 /\ npoints(geom.points) > geom.degree + 1
    /\ \E k \in 1..Len(lwnurbscurve_get_knots_for_wkb(geom)) :
           lwnurbscurve_get_knots_for_wkb(geom)[k] = probe.t
    /\ geom.flags.z
    /\ probe.result.pts = <<BasisWeightedSum(geom, probe.t)>>

\* the weights are present exactly when nweights > 0 and the knots exactly when
\* nknots > 0, and a count is the length of its array
ArraysMatchCounts(curve) ==
    /\ (curve.weights # <<>>) <=> (curve.nweights > 0)
    /\ (curve.knots # <<>>) <=> (curve.nknots > 0)
    /\ Len(curve.weights) = curve.nweights
    /\ Len(curve.knots) = curve.nknots

\* where the payload of a record starts
PayloadStart(g) ==
    (IF BitSet(g.gflags, G2FLAG_EXTENDED) THEN 8 ELSE 0)
      + (IF gserialized2_get_lwflags(g).bbox
         THEN gbox_serialized_size(gserialized2_get_lwflags(g)) ELSE 0)

\* the payload of a NurbsCurve is its five integers, as many doubles as its
\* nweights and nknots fields say, and its control points
CountsMatchPayload(g) ==
    LET p == PayloadStart(g)
    IN  (4 * Len(g.data)) - p =
            20 + (8 * (Word(g, p + 12) + Word(g, p + 16)))
               + (8 * FLAGS_NDIMS(gserialized2_get_lwflags(g)) * Word(g, p + 4))

\* C25: after any construction, clone or GS2 decode of a NurbsCurve the weights
\* array is present exactly when nweights > 0 and the knots array exactly when
\* nknots > 0, so that the nweights and nknots fields the GS2 encoder writes equal
\* the number of weight and knot doubles that follow them and the decoder reads
\* back the arrays the encoder wrote.
C25_ArraysMatchCounts ==
    /\ (pc = "geom" /\ probe.op = "construct") => ArraysMatchCounts(geom)
    /\ (pc = "cloned" /\ probe.status = "curve") => ArraysMatchCounts(probe.result)
    /\ (Readable /\ geom.type = NURBSCURVETYPE) => CountsMatchPayload(ser.g)
    /\ (pc = "deserialized" /\ dec.status = "returned" /\ geom.type = NURBSCURVETYPE) =>
          /\ ArraysMatchCounts(dec.lwgeom)
          /\ dec.lwgeom.weights = geom.weights
          /\ dec.lwgeom.knots = geom.knots

RECURSIVE RecordArrays(_, _, _)
RECURSIVE KidsArrays(_, _, _, _)
\* the offsets in g->data at which the non-empty arrays of doubles of the geometry
\* at offset p start, and the size of that geometry, read from the record as the
\* decoder walks it: type and count words first, rings after the ring counts and
\* their padding, weights, knots and control points after the five integers of
\* a NurbsCurve, the children of a collection one after the other
RecordArrays(g, p, ndims) ==
    LET type == Word(g, p)
        n == Word(g, p + 4)
    IN  CASE type \in {POINTTYPE, LINETYPE, CIRCSTRINGTYPE, TRIANGLETYPE} ->
                [starts |-> IF n > 0 THEN {p + 8} ELSE {}, size |-> 8 + (8 * ndims * n)]
          [] type = POLYGONTYPE ->
                LET base == p + 8 + (4 * n) + (4 * (n % 2))
                    ringsize(r) == 8 * ndims * Word(g, p + 8 + (4 * (r - 1)))
                    start(r) == base + SumSeq([k \in 1..(r - 1) |-> ringsize(k)])
                IN  [starts |-> {start(r) : r \in {q \in 1..n : ringsize(q) > 0}},
                     size |-> (base - p) + SumSeq([k \in 1..n |-> ringsize(k)])]
          [] type = NURBSCURVETYPE ->
                LET nweights == Word(g, p + 12)
                    nknots == Word(g, p + 16)
                    wp == p + 20
                    kp == wp + (8 * nweights)
                    pp == kp + (8 * nknots)
                IN  [starts |-> (IF nweights > 0 THEN {wp} ELSE {})
                                  \cup (IF nknots > 0 THEN {kp} ELSE {})
                                  \cup (IF n > 0 THEN {pp} ELSE {}),
                     size |-> (pp - p) + (8 * ndims * n)]
          [] type \in CollectionTypes ->
                LET kids == KidsArrays(g, p + 8, ndims, n)
                IN  [starts |-> kids.starts, size |-> 8 + kids.size]
          [] OTHER -> [starts |-> {}, size |-> 0]

KidsArrays(g, p, ndims, n) ==
    IF n = 0 THEN [starts |-> {}, size |-> 0]
    ELSE LET first == RecordArrays(g, p, ndims)
             rest == KidsArrays(g, p + first.size, ndims, n - 1)
         IN  [starts |-> first.starts \cup rest.starts, size |-> first.size + rest.size]

\* the offsets, from the start of the record, of the arrays of doubles in it
DoubleArrayOffsets(g) ==
    {8 + off : off \in RecordArrays(g, PayloadStart(g), G2FLAGS_NDIMS(g.gflags)).starts}

\* C26: in every record the GS2 encoder writes, each array of doubles (point
\* coordinates, polygon ring coordinates, and the weights, knots and control
\* points of a NurbsCurve) starts at an offset from the start of the record that
\* is a multiple of 8, for every geometry type, at the root and at any depth
\* inside collections, also for the geometries that follow a NurbsCurve in a
\* collection.
C26_DoublesAligned ==
    Readable => \A off \in DoubleArrayOffsets(ser.g) : off % 8 = 0

\* the record without its box: the box cells taken out of the data area, the
\* BBOX flag cleared and the size less by the size of the box
WithoutBox(g) ==
    LET box == gserialized2_box_size(g)
        ext == IF gserialized2_has_extended(g) THEN 2 ELSE 0
    IN  [g EXCEPT !.size = g.size - box,
                  !.gflags = g.gflags - G2FLAG_BBOX,
                  !.data = SubSeq(g.data, 1, ext)
                             \o SubSeq(g.data, ext + (box \div 4) + 1, Len(g.data))]

\* C27: gserialized2_drop_gbox always returns a freshly allocated record that is
\* the input without its bounding box: when the input has a box the output size
\* is the input size less the box size, the BBOX flag is cleared and the SRID,
\* the other flags, the extended flags and the payload are unchanged; when the
\* input has no box the output is a complete byte-for-byte copy of the input; in
\* both cases, with or without extended flags, every byte read lies inside the
\* input record and every byte written inside the output allocation.
C27_DropGboxExact ==
    (pc = "probed" /\ probe.op = "drop_gbox") =>
        LET r == probe.result
        IN  /\ ~r.wrapped
            /\ r.read_end <= ser.g.size
            /\ r.write_end <= r.allocated
            /\ IF gserialized2_has_bbox(ser.g)
               THEN /\ r.allocated = ser.g.size - gserialized2_box_size(ser.g)
                    /\ r.cells = RecordCells(WithoutBox(ser.g))
               ELSE /\ r.allocated = ser.g.size
                    /\ r.cells = RecordCells(ser.g)

\* whether the type code in field f has the SRID bit 0x20000000
HasSridBit(f) == BitSet(WkbUint(f)[1], 32)

\* C28: in the EXTENDED dialect, for every geometry type, NurbsCurve included, a
\* 4-byte SRID follows the type code exactly when the type code has the SRID
\* bit 0x20000000 set.
C28_SridIffSridBit ==
    (pc = "wkb" /\ WkbSupported(geom) /\ BitSet(wkb.variant, WKB_EXTENDED)) =>
        \A k \in WkbFieldsOf("type") :
            (k < Len(wkb.fields) /\ wkb.fields[k + 1].kind = "srid") <=> HasSridBit(wkb.fields[k])

\* C29: for every SRID s in the valid range gserialized2_get_srid returns s after
\* gserialized2_set_srid(g, s); the unknown SRID is stored as three zero bytes
\* and read back as unknown; and gserialized2_set_srid changes only the three
\* SRID bytes of the header, leaving the size, the flags and the payload as
\* they were.
C29_SetGetSrid ==
    (pc = "probed" /\ probe.op = "set_srid") =>
        /\ probe.got = probe.srid
        /\ (probe.srid = SRID_UNKNOWN) => (probe.g.srid = <<0, 0, 0>>)
        /\ probe.g.size = ser.g.size
        /\ probe.g.gflags = ser.g.gflags
        /\ probe.g.data = ser.g.data

\* the largest SRID was stored over another one in a record with a payload: all
\* three bytes are in use and it is read back
C29_Witness ==
    /\ pc = "probed" /\ probe.op = "set_srid"
    /\ probe.srid = SRID_MAXIMUM /\ probe.got = SRID_MAXIMUM
    /\ probe.g.srid = <<15, 66, 63>>
    /\ ser.g.srid # <<0, 0, 0>> /\ ser.g.srid # probe.g.srid
    /\ ~lwgeom_is_empty(geom)

\* the vector is the clamped uniform one for degree and np >= degree + 1
ClampedUniform(knots, degree, np) ==
    LET K == np - degree - 1
    IN  /\ Len(knots) = np + degree + 1
        /\ \A k \in 1..(degree + 1) : knots[k] = RZero
        /\ \A k \in (np + 1)..(np + degree + 1) : knots[k] = ROne
        /\ \A i \in 1..K : knots[degree + 1 + i] = Rat(i, K + 1)
        /\ \A k \in 1..(Len(knots) - 1) : RLe(knots[k], knots[k + 1])

\* C30: for npoints >= degree + 1 the synthesized knot vector has exactly
\* npoints + degree + 1 entries, the first degree + 1 are 0, the last degree + 1
\* are 1, the K = npoints - degree - 1 interior ones are i/(K+1) for i = 1..K and
\* the vector is non-decreasing; for npoints < degree + 1 no vector is produced
\* and the reported count is 0.
C30_ClampedUniformKnots ==
    (pc = "generated" /\ probe.op = "generate_knots") =>
        IF probe.npoints >= probe.degree + 1
        THEN /\ probe.nknots = probe.npoints + probe.degree + 1
             /\ ClampedUniform(probe.knots, probe.degree, probe.npoints)
        ELSE probe.knots = <<>> /\ probe.nknots = 0
====
